---- MODULE Spec2Model ----
(***************************************************************************)
(* Tic-tac-toe session protocol of jwkunz/my_first_python_game.            *)
(*                                                                         *)
(*   - the rule engine (solutions/3/game_state.py): make_move,             *)
(*     inspect_win, draw;                                                  *)
(*   - the board parser (solutions/3/load_game_state.py): load_game_string;*)
(*   - the local game loop (solutions/3/main.py);                          *)
(*   - the two servers (solutions/tic_tac_toe/tic_tac_toe_server.py, the   *)
(*     explicit state machine, and tic_tac_toe_server_terminal.py, the     *)
(*     single loop).                                                       *)
(*                                                                         *)
(* Python strings are sequences of one-character strings.  The box-drawing *)
(* glyphs U+2502, U+2500 and U+253C are written "U2502", "U2500", "U253C". *)
(* Python lists are indexed from 0; At(s, i) reads index i of a list.      *)
(***************************************************************************)
EXTENDS Integers, Sequences, FiniteSets, TLC

VARIABLES
    variant,       \* which program runs: "sm", "terminal", "local" or "parse"
    state,         \* the state-machine position (server.py: state)
    players,       \* list of joined usernames
    turn_index,    \* 0 or 1
    game,          \* the GameState object, or NoGame for None
    last_message,  \* server.py: the tokens WAITING_FOR_MOVE hands to PROCESS_MOVE;
                   \* NoMessage wherever the code holds a value it never reads
    sent,          \* what the last loop iteration broadcast (or printed), in order
    running,       \* FALSE once the loop has been left
    edit,          \* how text was obtained from the drawing of game
    text,          \* load_game_state.py: the argument s of load_game_string
    loaded,        \* load_game_state.py: the value load_game_string returned
    returned,      \* game_state.py: the last method call on game and its result
    client,        \* the client program: username, my_turn and its discovery
    stop_flag,     \* stop_flag["stop"], shared by main and the broadcaster thread
    threads,       \* where main and the broadcaster thread of a server are
    servers,       \* the server processes of a session, by program
    clients,       \* the client processes of a session, by username
    sub_sockets    \* the messages queued at the SUB socket of each process

\* the processes of a session and what they share
session == <<stop_flag, threads, servers, clients, sub_sockets>>

vars == <<variant, state, players, turn_index, game, last_message, sent,
          running, edit, text, loaded, returned, client, session>>

----------------------------------------------------------------------------
(* Python lists, 0-indexed *)

At(s, i) == s[i + 1]

Range(s) == {s[i] : i \in 1..Len(s)}

Idx == 0..2

\* no text has been made yet, or the drawing is taken as it is
NoEdit == [kind |-> "none", pos |-> 0, ch |-> ""]

\* no method of game has been called yet
NoCall == [call |-> "none", col |-> 0, row |-> 0, value |-> FALSE]

\* no client runs
NoClient == [username |-> "", my_turn |-> FALSE, lan |-> "", elapsed |-> 0, pc |-> ""]

\* no broadcaster thread is followed
NoThreads == [main |-> "", broadcaster |-> "", sendto |-> ""]

\* no session of several processes runs
Idle ==
    /\ stop_flag = FALSE
    /\ threads = NoThreads
    /\ servers = <<>>
    /\ clients = <<>>
    /\ sub_sockets = <<>>

----------------------------------------------------------------------------
(* game_state.py: class GameState *)

Empty == " "

Symbols == {"X", "O"}

Cells == {"X", "O", " "}

EmptyBoard == [r \in Idx |-> [c \in Idx |-> Empty]]

\* GameState.__init__
NewGame == [present |-> TRUE, board |-> EmptyBoard, current_player |-> "X"]

\* the server's "game = None"
NoGame == [present |-> FALSE, board |-> EmptyBoard, current_player |-> "X"]

\* mutant: column 3 is taken for a column of the board
MoveAccepted_WideColumn(g, col, row) ==
    /\ 0 <= row /\ row < 3
    /\ 0 <= col /\ col <= 3
    /\ (col < 3 => g.board[row][col] = Empty)

\* mutant: the cell is not required to be empty
MoveAccepted_Overwrite(g, col, row) ==
    /\ 0 <= row /\ row < 3
    /\ 0 <= col /\ col < 3

\* the condition of make_move's if
MoveAccepted(g, col, row) ==
    /\ 0 <= row /\ row < 3
    /\ 0 <= col /\ col < 3
    /\ g.board[row][col] = Empty

\* mutant: the current player is not switched
make_move_NoSwitch(g, col, row) ==
    IF MoveAccepted(g, col, row)
    THEN [g EXCEPT !.board[row][col] = g.current_player]
    ELSE g

\* GameState.make_move: the object after the call
make_move(g, col, row) ==
    IF MoveAccepted(g, col, row)
    THEN [g EXCEPT !.board[row][col] = g.current_player,
                   !.current_player = IF g.current_player = "X" THEN "O" ELSE "X"]
    ELSE g

\* the list "lines" of inspect_win, in the order of the source
WinLines(b) ==
    << <<b[0][0], b[0][1], b[0][2]>>,
       <<b[1][0], b[1][1], b[1][2]>>,
       <<b[2][0], b[2][1], b[2][2]>>,
       <<b[0][0], b[1][0], b[2][0]>>,
       <<b[0][1], b[1][1], b[2][1]>>,
       <<b[0][2], b[1][2], b[2][2]>>,
       <<b[0][0], b[1][1], b[2][2]>>,
       <<b[0][2], b[1][1], b[2][0]>> >>

\* mutant: the second diagonal is not looked at
inspect_win_NoAntiDiagonal(g) ==
    \E i \in 1..7 :
        LET line == WinLines(g.board)[i]
        IN  line[1] # Empty /\ \A k \in 1..3 : line[k] = line[1]

\* mutant: a line of three empty cells counts as three in a row
inspect_win_EmptyLine(g) ==
    \E i \in 1..8 :
        LET line == WinLines(g.board)[i]
        IN  \A k \in 1..3 : line[k] = line[1]

\* GameState.inspect_win
inspect_win(g) ==
    \E i \in 1..8 :
        LET line == WinLines(g.board)[i]
        IN  line[1] # Empty /\ \A k \in 1..3 : line[k] = line[1]

\* mutant: the last row is not looked at
BoardFull_TwoRows(b) == \A r \in 0..1 : \A c \in Idx : b[r][c] # Empty

\* main.py's draw check: all(cell != ' ' for row in board for cell in row)
BoardFull(b) == \A r \in Idx : \A c \in Idx : b[r][c] # Empty

\* GameState.inspect_draw of solutions/tic_tac_toe/game_state.py
inspect_draw(g) == BoardFull(g.board) /\ ~inspect_win(g)

----------------------------------------------------------------------------
(* GameState.draw *)

VBar == "U2502"
HBar == "U2500"
Cross == "U253C"
NL == "\n"

SeparatorLine == <<HBar, HBar, HBar, Cross, HBar, HBar, HBar, Cross, HBar, HBar, HBar>>

\* f" {b[r][0]} | {b[r][1]} | {b[r][2]} "
DataLine(b, r) ==
    <<" ", b[r][0], " ", VBar, " ", b[r][1], " ", VBar, " ", b[r][2], " ">>

\* "\n".join(rows)
RECURSIVE JoinLines(_)
JoinLines(rows) ==
    IF Len(rows) = 0 THEN <<>>
    ELSE IF Len(rows) = 1 THEN rows[1]
    ELSE rows[1] \o <<NL>> \o JoinLines(Tail(rows))

draw(g) ==
    JoinLines(<<DataLine(g.board, 0), SeparatorLine, DataLine(g.board, 1),
           SeparatorLine, DataLine(g.board, 2)>>)

\* GameState.__str__ of solutions/tic_tac_toe/game_state.py
Str(g) == draw(g)

----------------------------------------------------------------------------
(* load_game_state.py: load_game_string *)

CR == "\r"
FF == "\f"

\* the line boundaries of str.splitlines() among the characters modelled
\* (Python also splits at \v, \x1c, \x1d, \x1e, \x85, U+2028 and U+2029)
LineBreaks == {NL, CR, FF}

\* s.splitlines() from index i on, cur being the line read so far: a
\* boundary ends a line, "\r\n" is one boundary, and no empty last line is
\* produced after a final boundary
RECURSIVE SplitFrom(_, _, _)
SplitFrom(s, i, cur) ==
    IF i > Len(s) THEN (IF Len(cur) = 0 THEN <<>> ELSE <<cur>>)
    ELSE IF s[i] \in LineBreaks
    THEN <<cur>> \o SplitFrom(s, IF s[i] = CR /\ i < Len(s) /\ s[i + 1] = NL
                                 THEN i + 2 ELSE i + 1, <<>>)
    ELSE SplitFrom(s, i + 1, Append(cur, s[i]))

splitlines(s) == SplitFrom(s, 1, <<>>)

\* lines[1] != separator or lines[3] != separator
SeparatorsOk(lines) == At(lines, 1) = SeparatorLine /\ At(lines, 3) = SeparatorLine

allowed == {"X", "O", " "}

\* mutant: the padding spaces are not checked
DataLineOk_NoPadding(line) ==
    /\ Len(line) = 11
    /\ At(line, 3) = VBar /\ At(line, 7) = VBar
    /\ At(line, 1) \in allowed /\ At(line, 5) \in allowed /\ At(line, 9) \in allowed

\* the checks of one data line: length 11, spaces, bars, allowed marks
DataLineOk(line) ==
    /\ Len(line) = 11
    /\ At(line, 0) = " " /\ At(line, 2) = " " /\ At(line, 4) = " "
    /\ At(line, 6) = " " /\ At(line, 8) = " " /\ At(line, 10) = " "
    /\ At(line, 3) = VBar /\ At(line, 7) = VBar
    /\ At(line, 1) \in allowed /\ At(line, 5) \in allowed /\ At(line, 9) \in allowed

\* rows_parsed: [c1, c2, c3] of the data lines 0, 2, 4
RowsParsed(lines) ==
    [r \in Idx |-> [c \in Idx |-> At(At(lines, 2 * r), 1 + 4 * c)]]

\* flat.count(p)
Count(b, p) == Cardinality({rc \in Idx \X Idx : b[rc[1]][rc[2]] = p})

\* mutant: either symbol may hold the surplus
CountsOk_Abs(x_count, o_count) ==
    x_count = o_count \/ x_count = o_count + 1 \/ o_count = x_count + 1

\* x_count == o_count or x_count == o_count + 1
CountsOk(x_count, o_count) == x_count = o_count \/ x_count = o_count + 1

\* mutant: the rows are not looked at
is_winner_NoRows(b, p) ==
    \/ \E c \in Idx : \A r \in Idx : b[r][c] = p
    \/ (b[0][0] = p /\ b[1][1] = p /\ b[2][2] = p)
    \/ (b[0][2] = p /\ b[1][1] = p /\ b[2][0] = p)

\* the helper is_winner(b, p)
is_winner(b, p) ==
    \/ \E r \in Idx : \A c \in Idx : b[r][c] = p
    \/ \E c \in Idx : \A r \in Idx : b[r][c] = p
    \/ (b[0][0] = p /\ b[1][1] = p /\ b[2][2] = p)
    \/ (b[0][2] = p /\ b[1][1] = p /\ b[2][0] = p)

\* mutant: a winner's mark count is not compared with the other's
WinsOk_BothOnly(x_win, o_win, x_count, o_count) == ~(x_win /\ o_win)

\* the three checks on the winners: none of them returns None
WinsOk(x_win, o_win, x_count, o_count) ==
    /\ ~(x_win /\ o_win)
    /\ ~(x_win /\ x_count # o_count + 1)
    /\ ~(o_win /\ x_count # o_count)

\* mutant: X is always next
NextPlayer_AlwaysX(x_count, o_count) == "X"

\* next_player = 'X' if x_count == o_count else 'O'
NextPlayer(x_count, o_count) == IF x_count = o_count THEN "X" ELSE "O"

\* load_game_string(s): the GameState returned, NoGame for None
load_game_string(s) ==
    LET lines == splitlines(s)
    IN  IF Len(lines) # 5 THEN NoGame
        ELSE IF ~SeparatorsOk(lines) THEN NoGame
        ELSE IF \E idx \in {0, 2, 4} : ~DataLineOk(At(lines, idx)) THEN NoGame
        ELSE LET rows_parsed == RowsParsed(lines)
                 x_count == Count(rows_parsed, "X")
                 o_count == Count(rows_parsed, "O")
             IN  IF ~CountsOk(x_count, o_count) THEN NoGame
                 ELSE IF ~WinsOk(is_winner(rows_parsed, "X"), is_winner(rows_parsed, "O"),
                                 x_count, o_count)
                 THEN NoGame
                 ELSE [present |-> TRUE, board |-> rows_parsed,
                       current_player |-> NextPlayer(x_count, o_count)]

----------------------------------------------------------------------------
(* The messages the servers receive and broadcast *)

\* the usernames that ask to join, and one that never joins
Users == {"alice", "bob"}

Strangers == {"carol"}

Names == Users \cup Strangers

Topic == "client/"

\* the tokens int() accepts, with their values; int() raises ValueError on others
IntTokens == {"-1", "0", "1", "2", "3"}

CanInt(t) == t \in IntTokens

int(t) ==
    CASE t = "-1" -> 0 - 1
      [] t = "0" -> 0
      [] t = "1" -> 1
      [] t = "2" -> 2
      [] t = "3" -> 3

\* the coordinate pairs <<col, row>> a client sends: every cell of the board,
\* and each coordinate once below and once above the board
CellTokens == {"0", "1", "2"}

MoveTokens ==
    (CellTokens \X CellTokens)
    \cup {<<"-1", "0">>, <<"3", "1">>, <<"0", "-1">>, <<"2", "3">>}

\* msg.split() of the messages the SUB socket can deliver under topic "client/"
MoveMessages ==
    {<<Topic, m[1], m[2], u>> : m \in MoveTokens, u \in Users}
    \cup {<<Topic, "1", "1", u>> : u \in Strangers}

JoinMessages == {<<Topic, "request", "join", u>> : u \in Users}

ResignMessages == {<<Topic, "resign", u>> : u \in Names}

MalformedMessages ==
    {<<Topic>>, <<Topic, "request">>, <<Topic, "request", "join">>,
     <<Topic, "resign">>, <<Topic, "hello">>,
     <<Topic, "x", "1", "alice">>, <<Topic, "1", "x", "bob">>}

Inbound == MoveMessages \cup JoinMessages \cup ResignMessages \cup MalformedMessages

\* send_server_message(pub_socket, ...): the payload after "server/"
Msg(cmd, user, board) == [cmd |-> cmd, user |-> user, board |-> board]

Joined(u) == Msg("joined", u, <<>>)

Update(g) == Msg("update", "", Str(g))

Turn(u) == Msg("turn", u, <<>>)

Won(u) == Msg("won", u, <<>>)

Draw == Msg("draw", "", <<>>)

ErrorDisconnect == Msg("error", "disconnect", <<>>)

\* mutant: the username is appended whether or not it is in the list
Join_Always(ps, u) == Append(ps, u)

\* players.append(username) when username not in players
Join(ps, u) == IF u \in Range(ps) THEN ps ELSE Append(ps, u)

\* mutant: the list is left in the order of joining
Shuffles_Identity(ps) == {ps}

\* random.shuffle(players): every ordering of the list
Shuffles(ps) ==
    {q \in [1..Len(ps) -> Range(ps)] : Range(q) = Range(ps)}

\* mutant: the first player of the list always wins
Opponent_First(ps, u) == At(ps, 0)

\* winner = players[1] if username == players[0] else players[0]
Opponent(ps, u) == IF u = At(ps, 0) THEN At(ps, 1) ELSE At(ps, 0)

----------------------------------------------------------------------------
(* tic_tac_toe_server.py: main, the explicit state machine *)

WAITING_FOR_PLAYERS == "WAITING_FOR_PLAYERS"
START_GAME == "START_GAME"
WAITING_FOR_MOVE == "WAITING_FOR_MOVE"
PROCESS_MOVE == "PROCESS_MOVE"
GAME_OVER == "GAME_OVER"

NoMessage == <<>>

\* the outer "except Exception": broadcast "error disconnect", then finally
ServerError ==
    /\ sent' = <<ErrorDisconnect>>
    /\ running' = FALSE
    /\ UNCHANGED <<state, players, turn_index, game, last_message>>

\* mutant: a resign in the lobby leaves the player list as it is
WaitingForPlayers_ResignKeeps(tokens) ==
    /\ variant = "sm" /\ running /\ state = WAITING_FOR_PLAYERS
    /\ IF Len(tokens) < 2 THEN ServerError
       ELSE IF At(tokens, 1) = "request"
       THEN IF Len(tokens) < 3 THEN ServerError
            ELSE IF At(tokens, 2) = "join"
            THEN IF Len(tokens) < 4 THEN ServerError
                 ELSE LET username == At(tokens, 3)
                          joined == Join(players, username)
                      IN  /\ players' = joined
                          /\ sent' = IF username \in Range(players)
                                     THEN <<>> ELSE <<Joined(username)>>
                          /\ state' = IF Len(joined) = 2 THEN START_GAME ELSE state
                          /\ UNCHANGED <<turn_index, game, last_message, running>>
            ELSE /\ sent' = <<>>
                 /\ UNCHANGED <<state, players, turn_index, game, last_message, running>>
       ELSE /\ sent' = <<>>
            /\ UNCHANGED <<state, players, turn_index, game, last_message, running>>
    /\ UNCHANGED <<variant, session, edit, text, loaded, returned, client>>

\* state == WAITING_FOR_PLAYERS
WaitingForPlayers(tokens) ==
    /\ variant = "sm" /\ running /\ state = WAITING_FOR_PLAYERS
    /\ IF Len(tokens) < 2 THEN ServerError
       ELSE IF At(tokens, 1) = "request"
       THEN IF Len(tokens) < 3 THEN ServerError
            ELSE IF At(tokens, 2) = "join"
            THEN IF Len(tokens) < 4 THEN ServerError
                 ELSE LET username == At(tokens, 3)
                          joined == Join(players, username)
                      IN  /\ players' = joined
                          /\ sent' = IF username \in Range(players)
                                     THEN <<>> ELSE <<Joined(username)>>
                          /\ state' = IF Len(joined) = 2 THEN START_GAME ELSE state
                          /\ UNCHANGED <<turn_index, game, last_message, running>>
            ELSE /\ sent' = <<>>
                 /\ UNCHANGED <<state, players, turn_index, game, last_message, running>>
       ELSE IF At(tokens, 1) = "resign"
       THEN /\ players' = <<>>
            /\ sent' = <<>>
            /\ UNCHANGED <<state, turn_index, game, last_message, running>>
       ELSE /\ sent' = <<>>
            /\ UNCHANGED <<state, players, turn_index, game, last_message, running>>
    /\ UNCHANGED <<variant, session, edit, text, loaded, returned, client>>

\* mutant: the game starts with the second player of the list on turn
StartGame_SecondFirst ==
    /\ variant = "sm" /\ running /\ state = START_GAME
    /\ game' = NewGame
    /\ players' \in Shuffles(players)
    /\ turn_index' = 1
    /\ sent' = <<Update(game'), Turn(At(players', turn_index'))>>
    /\ state' = WAITING_FOR_MOVE
    /\ UNCHANGED <<variant, session, last_message, running, edit, text, loaded, returned, client>>

\* state == START_GAME
StartGame ==
    /\ variant = "sm" /\ running /\ state = START_GAME
    /\ game' = NewGame
    /\ players' \in Shuffles(players)
    /\ turn_index' = 0
    /\ sent' = <<Update(game'), Turn(At(players', turn_index'))>>
    /\ state' = WAITING_FOR_MOVE
    /\ UNCHANGED <<variant, session, last_message, running, edit, text, loaded, returned, client>>

\* state == WAITING_FOR_MOVE
WaitingForMove(tokens) ==
    /\ variant = "sm" /\ running /\ state = WAITING_FOR_MOVE
    /\ IF Len(tokens) < 2 \/ (At(tokens, 1) = "resign" /\ Len(tokens) < 3)
       THEN /\ sent' = <<ErrorDisconnect>>
            /\ running' = FALSE
            /\ last_message' = NoMessage
            /\ UNCHANGED <<state, players, turn_index, game>>
       ELSE IF At(tokens, 1) = "resign"
       THEN /\ sent' = <<Won(Opponent(players, At(tokens, 2)))>>
            /\ state' = GAME_OVER
            /\ last_message' = NoMessage
            /\ UNCHANGED <<players, turn_index, game, running>>
       ELSE IF Len(tokens) = 4
       THEN /\ state' = PROCESS_MOVE
            /\ last_message' = tokens
            /\ sent' = <<>>
            /\ UNCHANGED <<players, turn_index, game, running>>
       ELSE /\ sent' = <<>>
            /\ last_message' = NoMessage
            /\ UNCHANGED <<state, players, turn_index, game, running>>
    /\ UNCHANGED <<variant, session, edit, text, loaded, returned, client>>

\* mutant: whose turn it is is not enforced
NotTurn_Never(username, ps, ti) == FALSE

\* username != players[turn_index]
NotTurn(username, ps, ti) == username # At(ps, ti)

\* mutant: after a move that goes on, the turn is announced to the mover again
HandleMove_SameTurn(tokens, ps, ti, g) ==
    IF ~CanInt(At(tokens, 1)) \/ ~CanInt(At(tokens, 2))
    THEN [end |-> "error", game |-> g, turn_index |-> ti, sent |-> <<ErrorDisconnect>>]
    ELSE LET col == int(At(tokens, 1))
             row == int(At(tokens, 2))
             username == At(tokens, 3)
             moved == make_move(g, col, row)
         IN  IF NotTurn(username, ps, ti)
             THEN [end |-> "ignored", game |-> g, turn_index |-> ti, sent |-> <<>>]
             ELSE IF ~MoveAccepted(g, col, row)
             THEN [end |-> "over", game |-> moved, turn_index |-> ti,
                   sent |-> <<Won(Opponent(ps, username))>>]
             ELSE IF inspect_win(moved)
             THEN [end |-> "over", game |-> moved, turn_index |-> ti,
                   sent |-> <<Update(moved), Won(At(ps, ti))>>]
             ELSE IF inspect_draw(moved)
             THEN [end |-> "over", game |-> moved, turn_index |-> ti,
                   sent |-> <<Update(moved), Draw>>]
             ELSE [end |-> "turn", game |-> moved, turn_index |-> 1 - ti,
                   sent |-> <<Update(moved), Turn(At(ps, ti))>>]

\* the body of the try of PROCESS_MOVE, and of the terminal server's move
\* handler: the new (game, turn_index), what is broadcast and whether the
\* game goes on ("turn"), is over ("over"), the move is ignored ("ignored")
\* or an exception was raised ("error")
HandleMove(tokens, ps, ti, g) ==
    IF ~CanInt(At(tokens, 1)) \/ ~CanInt(At(tokens, 2))
    THEN [end |-> "error", game |-> g, turn_index |-> ti, sent |-> <<ErrorDisconnect>>]
    ELSE LET col == int(At(tokens, 1))
             row == int(At(tokens, 2))
             username == At(tokens, 3)
             moved == make_move(g, col, row)
         IN  IF NotTurn(username, ps, ti)
             THEN [end |-> "ignored", game |-> g, turn_index |-> ti, sent |-> <<>>]
             ELSE IF ~MoveAccepted(g, col, row)
             THEN [end |-> "over", game |-> moved, turn_index |-> ti,
                   sent |-> <<Won(Opponent(ps, username))>>]
             ELSE IF inspect_win(moved)
             THEN [end |-> "over", game |-> moved, turn_index |-> ti,
                   sent |-> <<Update(moved), Won(At(ps, ti))>>]
             ELSE IF inspect_draw(moved)
             THEN [end |-> "over", game |-> moved, turn_index |-> ti,
                   sent |-> <<Update(moved), Draw>>]
             ELSE [end |-> "turn", game |-> moved, turn_index |-> 1 - ti,
                   sent |-> <<Update(moved), Turn(At(ps, 1 - ti))>>]

\* mutant: after an exception the server goes back to waiting for a move
ProcessMove_ErrorContinues ==
    /\ variant = "sm" /\ running /\ state = PROCESS_MOVE
    /\ LET r == HandleMove(last_message, players, turn_index, game)
       IN  /\ game' = r.game
           /\ turn_index' = r.turn_index
           /\ sent' = r.sent
           /\ state' = IF r.end = "over" THEN GAME_OVER ELSE WAITING_FOR_MOVE
    /\ last_message' = NoMessage
    /\ UNCHANGED <<variant, session, players, running, edit, text, loaded, returned, client>>

\* state == PROCESS_MOVE
ProcessMove ==
    /\ variant = "sm" /\ running /\ state = PROCESS_MOVE
    /\ LET r == HandleMove(last_message, players, turn_index, game)
       IN  /\ game' = r.game
           /\ turn_index' = r.turn_index
           /\ sent' = r.sent
           /\ state' = IF r.end \in {"over", "error"} THEN GAME_OVER
                       ELSE WAITING_FOR_MOVE
    /\ last_message' = NoMessage
    /\ UNCHANGED <<variant, session, players, running, edit, text, loaded, returned, client>>

\* mutant: instead of leaving the loop the server waits for moves again
GameOver_Restart ==
    /\ variant = "sm" /\ running /\ state = GAME_OVER
    /\ state' = WAITING_FOR_MOVE
    /\ sent' = <<>>
    /\ UNCHANGED <<variant, session, running, players, turn_index, game, last_message, edit, text,
                   loaded, returned, client>>

\* state == GAME_OVER: break, then the finally block
GameOver ==
    /\ variant = "sm" /\ running /\ state = GAME_OVER
    /\ running' = FALSE
    /\ sent' = <<>>
    /\ UNCHANGED <<variant, session, state, players, turn_index, game, last_message, edit, text, loaded, returned, client>>

InitServer ==
    /\ variant = "sm"
    /\ state = WAITING_FOR_PLAYERS
    /\ players = <<>>
    /\ turn_index = 0
    /\ game = NoGame
    /\ last_message = NoMessage
    /\ sent = <<>>
    /\ running = TRUE
    /\ edit = NoEdit
    /\ text = <<>>
    /\ loaded = NoGame
    /\ returned = NoCall
    /\ client = NoClient
    /\ Idle

----------------------------------------------------------------------------
(* tic_tac_toe_server_terminal.py: main, the single loop.  It has no state *)
(* variable: state stays LOOP, and running is FALSE after a break.         *)

LOOP == "LOOP"

\* one iteration of "while True"
TerminalLoop(tokens) ==
    /\ variant = "terminal" /\ running
    /\ IF Len(tokens) < 2 THEN ServerError
       ELSE IF At(tokens, 1) = "request" /\ Len(tokens) >= 4 /\ At(tokens, 2) = "join"
       THEN LET username == At(tokens, 3)
                joined == Join(players, username)
                starts == Len(joined) = 2 /\ ~game.present
            IN  /\ players' \in (IF starts THEN Shuffles(joined) ELSE {joined})
                /\ game' = IF starts THEN NewGame ELSE game
                /\ sent' = (IF username \in Range(players)
                            THEN <<>> ELSE <<Joined(username)>>)
                           \o (IF starts
                               THEN <<Update(game'), Turn(At(players', turn_index))>>
                               ELSE <<>>)
                /\ UNCHANGED <<state, turn_index, last_message, running>>
       ELSE IF At(tokens, 1) = "resign" /\ Len(tokens) = 3
       THEN LET username == At(tokens, 2)
            IN  IF username \in Range(players) /\ Len(players) = 2
                THEN /\ sent' = <<Won(Opponent(players, username))>>
                     /\ running' = FALSE
                     /\ UNCHANGED <<state, players, turn_index, game, last_message>>
                ELSE /\ players' = <<>>
                     /\ sent' = <<>>
                     /\ UNCHANGED <<state, turn_index, game, last_message, running>>
       ELSE IF ~game.present \/ Len(players) < 2
       THEN /\ sent' = <<>>
            /\ UNCHANGED <<state, players, turn_index, game, last_message, running>>
       ELSE IF Len(tokens) = 4
       THEN LET r == HandleMove(tokens, players, turn_index, game)
            IN  /\ game' = r.game
                /\ turn_index' = r.turn_index
                /\ sent' = r.sent
                /\ running' = (r.end \notin {"over", "error"})
                /\ UNCHANGED <<state, players, last_message>>
       ELSE /\ sent' = <<>>
            /\ UNCHANGED <<state, players, turn_index, game, last_message, running>>
    /\ UNCHANGED <<variant, session, edit, text, loaded, returned, client>>

InitTerminal ==
    /\ variant = "terminal"
    /\ state = LOOP
    /\ players = <<>>
    /\ turn_index = 0
    /\ game = NoGame
    /\ last_message = NoMessage
    /\ sent = <<>>
    /\ running = TRUE
    /\ edit = NoEdit
    /\ text = <<>>
    /\ loaded = NoGame
    /\ returned = NoCall
    /\ client = NoClient
    /\ Idle

----------------------------------------------------------------------------
(* solutions/3/main.py: main, the local two-player loop.  sent holds what  *)
(* the iteration printed about the move: a complaint or the outcome.       *)

\* move.split() of what input() can return
LocalInputs ==
    (IntTokens \X IntTokens) \cup {<<>>, <<"1">>, <<"x", "1">>, <<"1", "x">>, <<"1", "1", "1">>}

InvalidInput == Msg("invalid input", "", <<>>)

InvalidMove == Msg("invalid move", "", <<>>)

\* one iteration of "while True"
LocalTurn(move) ==
    /\ variant = "local" /\ running
    /\ IF Len(move) # 2 \/ \E i \in 1..Len(move) : ~CanInt(move[i])
       THEN /\ sent' = <<InvalidInput>>
            /\ UNCHANGED <<game, running>>
       ELSE LET col == int(At(move, 0))
                row == int(At(move, 1))
                moved == make_move(game, col, row)
            IN  IF ~MoveAccepted(game, col, row)
                THEN /\ sent' = <<InvalidMove>>
                     /\ game' = moved
                     /\ UNCHANGED running
                ELSE IF inspect_win(moved)
                THEN /\ sent' = <<Won(IF moved.current_player = "X" THEN "O" ELSE "X")>>
                     /\ game' = moved
                     /\ running' = FALSE
                ELSE IF BoardFull(moved.board)
                THEN /\ sent' = <<Draw>>
                     /\ game' = moved
                     /\ running' = FALSE
                ELSE /\ sent' = <<>>
                     /\ game' = moved
                     /\ UNCHANGED running
    /\ UNCHANGED <<variant, session, state, players, turn_index, last_message, edit, text, loaded, returned, client>>

InitLocal ==
    /\ variant = "local"
    /\ state = LOOP
    /\ players = <<>>
    /\ turn_index = 0
    /\ game = NewGame
    /\ last_message = NoMessage
    /\ sent = <<>>
    /\ running = TRUE
    /\ edit = NoEdit
    /\ text = <<>>
    /\ loaded = NoGame
    /\ returned = NoCall
    /\ client = NoClient
    /\ Idle

----------------------------------------------------------------------------
(* The state-machine server and the local game, and the terminal server *)

Init == InitServer \/ InitLocal

Next ==
    \/ \E tokens \in Inbound : WaitingForPlayers(tokens)
    \/ StartGame
    \/ \E tokens \in Inbound : WaitingForMove(tokens)
    \/ ProcessMove
    \/ GameOver
    \/ \E move \in LocalInputs : LocalTurn(move)

Spec == Init /\ [][Next]_vars

NextTerminal == \E tokens \in Inbound : TerminalLoop(tokens)

SpecTerminal == InitTerminal /\ [][NextTerminal]_vars

----------------------------------------------------------------------------
(* A game of main.py saved with draw() and read back with load_game_string *)

SaveAndLoad ==
    /\ variant = "local" /\ Len(text) = 0
    /\ text' = draw(game)
    /\ loaded' = load_game_string(text')
    /\ UNCHANGED <<variant, session, state, players, turn_index, game, last_message, sent,
                   running, edit, returned, client>>

NextRoundTrip ==
    \/ \E move \in LocalInputs : Len(text) = 0 /\ LocalTurn(move)
    \/ SaveAndLoad

SpecRoundTrip == InitLocal /\ [][NextRoundTrip]_vars

----------------------------------------------------------------------------
(* load_game_string applied to drawings and to drawings changed in one place *)

\* edits are applied to the drawings of the boards with at most this many marks
MaxEditMarks == 1

Alphabet == {" ", "X", "O", VBar, HBar, Cross, NL, CR, FF, "|", "-"}

\* every 3x3 grid of cells, reachable in play or not
AllBoards == [Idx -> [Idx -> Cells]]

Drawn(b) == [present |-> TRUE, board |-> b, current_player |-> "X"]

\* len(draw()): five lines of 11 characters and four line terminators
DrawingLen == Len(draw(NewGame))

Edits(g) ==
    {NoEdit}
    \cup (IF Count(g.board, "X") + Count(g.board, "O") <= MaxEditMarks
          THEN {[kind |-> "replace", pos |-> p, ch |-> c] :
                    p \in 1..DrawingLen, c \in Alphabet}
               \cup {[kind |-> "append", pos |-> DrawingLen + 1, ch |-> c] :
                    c \in Alphabet}
          ELSE {})

ApplyEdit(t, e) ==
    CASE e.kind = "none" -> t
      [] e.kind = "replace" -> [t EXCEPT ![e.pos] = e.ch]
      [] e.kind = "append" -> Append(t, e.ch)

InitParse ==
    /\ variant = "parse"
    /\ state = LOOP
    /\ players = <<>>
    /\ turn_index = 0
    /\ game \in {Drawn(b) : b \in AllBoards}
    /\ last_message = NoMessage
    /\ sent = <<>>
    /\ running = TRUE
    /\ edit \in Edits(game)
    /\ text = ApplyEdit(draw(game), edit)
    /\ loaded = NoGame
    /\ returned = NoCall
    /\ client = NoClient
    /\ Idle

LoadGameString ==
    /\ variant = "parse" /\ running
    /\ loaded' = load_game_string(text)
    /\ running' = FALSE
    /\ UNCHANGED <<variant, session, state, players, turn_index, game, last_message, sent,
                   edit, text, returned, client>>

SpecParse == InitParse /\ [][LoadGameString]_vars

----------------------------------------------------------------------------
(* Vocabulary of the properties, defined without the code's operators *)

\* the 8 lines of the board as sets of <<row, col>>
LineCoords ==
    {{<<r, 0>>, <<r, 1>>, <<r, 2>>} : r \in Idx}
    \cup {{<<0, c>>, <<1, c>>, <<2, c>>} : c \in Idx}
    \cup {{<<0, 0>>, <<1, 1>>, <<2, 2>>}, {<<0, 2>>, <<1, 1>>, <<2, 0>>}}

HasLineOf(b, p) == \E L \in LineCoords : \A rc \in L : b[rc[1]][rc[2]] = p

HasLine(b) == HasLineOf(b, "X") \/ HasLineOf(b, "O")

NumOf(b, p) == Cardinality({rc \in Idx \X Idx : b[rc[1]][rc[2]] = p})

NumMarks(b) == NumOf(b, "X") + NumOf(b, "O")

\* tokens is "<col> <row> <username>" with integer coordinates
IsMove(tokens) == Len(tokens) = 4 /\ CanInt(At(tokens, 1)) /\ CanInt(At(tokens, 2))

\* the move <<col, row>> is outside the board or on an occupied cell
Illegal(b, col, row) ==
    col \notin Idx \/ row \notin Idx \/ b[row][col] # Empty

\* the player of the match who is not u
OtherPlayer(u) == CHOOSE q \in Range(players) : q # u

\* the step is an accepted move: a cell of the board changes
BoardChanges == game'.board # game.board

WonSent(msgs) == {u \in Names \cup Symbols : Won(u) \in Range(msgs)}

----------------------------------------------------------------------------
(* C1: in PROCESS_MOVE, a move message <col> <row> <username> (integer    *)
(* coordinates) whose username is not                                      *)
(* players[turn_index] changes neither the board, the game's current       *)
(* player, turn_index nor players, broadcasts nothing, and the server goes *)
(* back to waiting for a move.                                             *)

C1_WrongTurnIgnored ==
    [][ ( /\ variant = "sm" /\ running /\ state = PROCESS_MOVE
          /\ IsMove(last_message)
          /\ At(last_message, 3) # At(players, turn_index) )
        => ( /\ UNCHANGED <<game, players, turn_index>>
             /\ sent' = <<>>
             /\ state' = WAITING_FOR_MOVE
             /\ running' )
      ]_vars

\* a player who is not on turn has sent a move to a free cell, mid-game
C1_Witness ==
    /\ variant = "sm" /\ running /\ state = PROCESS_MOVE
    /\ IsMove(last_message)
    /\ At(last_message, 3) \in Range(players)
    /\ At(last_message, 3) # At(players, turn_index)
    /\ NumMarks(game.board) >= 2
    /\ ~Illegal(game.board, int(At(last_message, 1)), int(At(last_message, 2)))

----------------------------------------------------------------------------
(* C2: a move of the current player players[turn_index] that is outside    *)
(* [0,2] or on an occupied cell makes the server broadcast exactly         *)
(* "won <other player>", leave the board unchanged and end the game; the   *)
(* "error disconnect" path is not taken.                                   *)

C2_IllegalMoveForfeits ==
    [][ ( /\ variant = "sm" /\ running /\ state = PROCESS_MOVE
          /\ IsMove(last_message)
          /\ At(last_message, 3) = At(players, turn_index)
          /\ Illegal(game.board, int(At(last_message, 1)), int(At(last_message, 2))) )
        => ( /\ sent' = <<Won(OtherPlayer(At(last_message, 3)))>>
             /\ UNCHANGED <<game, players, turn_index>>
             /\ state' = GAME_OVER
             /\ running' )
      ]_vars

\* the player on turn has sent a move to an occupied cell
C2_Witness ==
    /\ variant = "sm" /\ running /\ state = PROCESS_MOVE
    /\ IsMove(last_message)
    /\ At(last_message, 3) = At(players, turn_index)
    /\ int(At(last_message, 1)) \in Idx /\ int(At(last_message, 2)) \in Idx
    /\ game.board[int(At(last_message, 2))][int(At(last_message, 1))] # Empty

----------------------------------------------------------------------------
(* C3: a move is accepted only on a board without a line; after it,        *)
(* inspect_win is true exactly when the move completed a row, column or    *)
(* diagonal of three identical marks; the servers then broadcast           *)
(* "won <u>" with u the player who sent the move, and broadcast no "won"   *)
(* otherwise (main.py prints the mover's symbol).                          *)

C3_WinOnCompletingMove ==
    [][ BoardChanges =>
          /\ ~HasLine(game.board)
          /\ inspect_win(game') = HasLine(game'.board)
          /\ variant = "sm" =>
                WonSent(sent') = IF HasLine(game'.board)
                                 THEN {At(last_message, 3)} ELSE {}
          /\ variant = "local" =>
                WonSent(sent') = IF HasLine(game'.board)
                                 THEN {game.current_player} ELSE {}
      ]_vars

\* the state machine has just announced the winner of a line, mid-board
C3_Witness ==
    /\ variant = "sm" /\ state = GAME_OVER
    /\ HasLine(game.board) /\ NumMarks(game.board) < 9
    /\ sent = <<Update(game), Won(At(players, turn_index))>>

----------------------------------------------------------------------------
(* C4: when an accepted move fills the ninth cell and no line exists,      *)
(* inspect_win is false, inspect_draw is true and the outcome is a draw;   *)
(* when the ninth move completes a line the outcome is a win and no draw;  *)
(* either way the game is over.  A draw is announced in no other case.     *)

C4_NinthMove ==
    [][ /\ (BoardChanges /\ NumMarks(game'.board) = 9) =>
              /\ IF HasLine(game'.board)
                 THEN /\ WonSent(sent') # {}
                      /\ Draw \notin Range(sent')
                 ELSE /\ ~inspect_win(game')
                      /\ inspect_draw(game')
                      /\ WonSent(sent') = {}
                      /\ Len(sent') > 0 /\ sent'[Len(sent')] = Draw
              /\ IF variant = "sm" THEN state' = GAME_OVER ELSE ~running'
        /\ Draw \in Range(sent') =>
              BoardChanges /\ NumMarks(game'.board) = 9 /\ ~HasLine(game'.board)
      ]_vars

\* the state machine has announced a draw on a full board
C4_Witness ==
    /\ variant = "sm" /\ state = GAME_OVER
    /\ NumMarks(game.board) = 9 /\ ~HasLine(game.board)
    /\ sent = <<Update(game), Draw>>

----------------------------------------------------------------------------
(* C5: round trip.  For every GameState main.py reaches from the empty     *)
(* board by alternating legal moves, up to the first win or the full       *)
(* board, load_game_string(draw()) returns a GameState with the same       *)
(* board, cell for cell, and the same current player.                      *)

C5_RoundTrip ==
    Len(text) > 0 =>
        /\ text = draw(game)
        /\ loaded.present
        /\ \A r \in Idx : \A c \in Idx : loaded.board[r][c] = game.board[r][c]
        /\ loaded.current_player = game.current_player

\* a won game, X's third mark completing the line, was saved and read back
C5_Witness ==
    /\ variant = "local" /\ ~running
    /\ HasLineOf(game.board, "X") /\ NumMarks(game.board) = 5
    /\ Len(text) > 0 /\ loaded.present /\ loaded.current_player = "O"

----------------------------------------------------------------------------
(* C6: load_game_string returns None for every text obtained from a valid  *)
(* drawing by changing one character in a separator position: any          *)
(* character of line 2 or 4, a bar at index 3 or 7 of a data line, or a    *)
(* padding space at index 0, 2, 4, 6, 8 or 10 of a data line.              *)

\* a line of the drawing takes 11 characters and a line terminator
LineOf(pos) == (pos - 1) \div 12

ColumnOf(pos) == (pos - 1) % 12

SeparatorPosition(pos) ==
    \/ LineOf(pos) \in {1, 3} /\ ColumnOf(pos) <= 10
    \/ LineOf(pos) \in {0, 2, 4} /\ ColumnOf(pos) \in {0, 2, 3, 4, 6, 7, 8, 10}

\* the drawing of game, unedited, is one that load_game_string accepts
ValidDrawing == load_game_string(draw(game)).present

\* text is the drawing of game with the character at edit.pos changed
OneCharacterChanged ==
    /\ edit.kind = "replace"
    /\ edit.ch # draw(game)[edit.pos]

C6_SeparatorChangeRejected ==
    ( /\ variant = "parse" /\ ~running
      /\ OneCharacterChanged /\ SeparatorPosition(edit.pos)
      /\ ValidDrawing )
    => ~loaded.present

\* a bar of the last data line of a drawing with a mark became an ASCII bar
C6_Witness ==
    /\ variant = "parse" /\ ~running
    /\ edit = [kind |-> "replace", pos |-> 56, ch |-> "|"]
    /\ NumMarks(game.board) = 1 /\ ValidDrawing
    /\ ~loaded.present

----------------------------------------------------------------------------
(* C7: for every text t that load_game_string accepts, draw() of the       *)
(* returned GameState is t, character for character.                       *)

C7_AcceptedIsDrawn ==
    (variant = "parse" /\ ~running /\ loaded.present) => draw(loaded) = text

----------------------------------------------------------------------------
(* C8: load_game_string returns None for every well-formed drawing in      *)
(* which both X and O have a complete line, whatever the mark counts.      *)

C8_BothWinRejected ==
    ( /\ variant = "parse" /\ ~running /\ edit = NoEdit
      /\ HasLineOf(game.board, "X") /\ HasLineOf(game.board, "O") )
    => ~loaded.present

\* both have a row, and the counts are those of a position X has just moved in
C8_Witness ==
    /\ variant = "parse" /\ ~running /\ edit = NoEdit
    /\ HasLineOf(game.board, "X") /\ HasLineOf(game.board, "O")
    /\ NumOf(game.board, "X") = NumOf(game.board, "O") + 1
    /\ ~loaded.present

----------------------------------------------------------------------------
(* C9: load_game_string returns None for every well-formed drawing in      *)
(* which O has more marks than X.                                          *)

C9_OSurplusRejected ==
    ( /\ variant = "parse" /\ ~running /\ edit = NoEdit
      /\ NumOf(game.board, "O") > NumOf(game.board, "X") )
    => ~loaded.present

\* O has exactly one mark more than X and nobody has a line
C9_Witness ==
    /\ variant = "parse" /\ ~running /\ edit = NoEdit
    /\ NumOf(game.board, "O") = NumOf(game.board, "X") + 1
    /\ NumOf(game.board, "X") >= 2
    /\ ~HasLine(game.board)
    /\ ~loaded.present

----------------------------------------------------------------------------
(* C10: load_game_string returns None for every well-formed drawing in     *)
(* which X has a line but X-count is not O-count + 1, and for every one in *)
(* which O has a line but the counts are not equal.                        *)

C10_WinnerCountsRejected ==
    ( /\ variant = "parse" /\ ~running /\ edit = NoEdit
      /\ \/ ( /\ HasLineOf(game.board, "X")
              /\ NumOf(game.board, "X") # NumOf(game.board, "O") + 1 )
         \/ ( /\ HasLineOf(game.board, "O")
              /\ NumOf(game.board, "X") # NumOf(game.board, "O") ) )
    => ~loaded.present

\* X alone has a line although O has as many marks as X
C10_Witness ==
    /\ variant = "parse" /\ ~running /\ edit = NoEdit
    /\ HasLineOf(game.board, "X") /\ ~HasLineOf(game.board, "O")
    /\ NumOf(game.board, "X") = NumOf(game.board, "O")
    /\ ~loaded.present

----------------------------------------------------------------------------
(* C11: load_game_string returns None exactly when one of the conditions   *)
(* (a)-(e) is violated, the count condition (c) being |X-count - O-count|  *)
(* <= 1: every well-formed drawing that satisfies (c), (d) and (e) is      *)
(* accepted, with next player X when the counts are equal and O otherwise. *)

\* (c) |X-count - O-count| <= 1
ConditionC(b) ==
    /\ NumOf(b, "X") - NumOf(b, "O") <= 1
    /\ NumOf(b, "O") - NumOf(b, "X") <= 1

\* (d) both symbols cannot have a line
ConditionD(b) == ~(HasLineOf(b, "X") /\ HasLineOf(b, "O"))

\* (e) a winner's count fits the winner
ConditionE(b) ==
    /\ HasLineOf(b, "X") => NumOf(b, "X") = NumOf(b, "O") + 1
    /\ HasLineOf(b, "O") => NumOf(b, "X") = NumOf(b, "O")

C11_AcceptedIffConditions ==
    (variant = "parse" /\ ~running /\ edit = NoEdit) =>
        /\ loaded.present =
              (ConditionC(game.board) /\ ConditionD(game.board) /\ ConditionE(game.board))
        /\ loaded.present =>
              /\ loaded.board = game.board
              /\ loaded.current_player =
                    IF NumOf(game.board, "X") = NumOf(game.board, "O") THEN "X" ELSE "O"

----------------------------------------------------------------------------
(* The methods of GameState called on any board.  set_board and            *)
(* set_current_player can put the object in every one of these states.     *)

AllGames ==
    {[present |-> TRUE, board |-> b, current_player |-> p] :
        b \in AllBoards, p \in Symbols}

\* the arguments (col, row) of make_move: every cell, and each coordinate
\* once below and once above the board
MoveArgs == {<<int(m[1]), int(m[2])>> : m \in MoveTokens}

InitRules ==
    /\ variant = "rules"
    /\ state = LOOP
    /\ players = <<>>
    /\ turn_index = 0
    /\ game \in AllGames
    /\ last_message = NoMessage
    /\ sent = <<>>
    /\ running = TRUE
    /\ edit = NoEdit
    /\ text = <<>>
    /\ loaded = NoGame
    /\ returned = NoCall
    /\ client = NoClient
    /\ Idle

\* game.inspect_win()
InspectWin ==
    /\ variant = "rules" /\ returned = NoCall
    /\ returned' = [call |-> "inspect_win", col |-> 0, row |-> 0,
                    value |-> inspect_win(game)]
    /\ UNCHANGED <<variant, session, state, players, turn_index, game, last_message, sent,
                   running, edit, text, loaded, client>>

\* game.make_move(col, row)
MakeMove(col, row) ==
    /\ variant = "rules" /\ returned = NoCall
    /\ game' = make_move(game, col, row)
    /\ returned' = [call |-> "make_move", col |-> col, row |-> row,
                    value |-> MoveAccepted(game, col, row)]
    /\ UNCHANGED <<variant, session, state, players, turn_index, last_message, sent,
                   running, edit, text, loaded, client>>

NextRules ==
    \/ InspectWin
    \/ \E m \in MoveArgs : MakeMove(m[1], m[2])

SpecRules == InitRules /\ [][NextRules]_vars

----------------------------------------------------------------------------
(* C12: for every 3x3 board over {X, O, empty}, inspect_win returns true   *)
(* if and only if at least one of the 8 lines (3 rows, 3 columns, 2        *)
(* diagonals) holds three identical non-empty marks.                       *)

C12_InspectWinIffLine ==
    (variant = "rules" /\ returned.call = "inspect_win") =>
        (returned.value = HasLine(game.board))

\* inspect_win returned True on a board whose only line is the diagonal
\* from the top right to the bottom left
C12_Witness ==
    /\ variant = "rules" /\ returned.call = "inspect_win" /\ returned.value
    /\ \A L \in LineCoords :
          (\E p \in Symbols : \A rc \in L : game.board[rc[1]][rc[2]] = p)
              <=> L = {<<0, 2>>, <<1, 1>>, <<2, 0>>}

----------------------------------------------------------------------------
(* C13: make_move(col, row) returns False if and only if col or row is     *)
(* outside [0,2] or board[row][col] is not empty, and a rejected call      *)
(* leaves every cell of the board and the current player unchanged.        *)

C13_RejectedIffIllegal ==
    [][ (variant = "rules" /\ returned'.call = "make_move") =>
          /\ returned'.value = ~Illegal(game.board, returned'.col, returned'.row)
          /\ ~returned'.value =>
                /\ \A r \in Idx : \A c \in Idx : game'.board[r][c] = game.board[r][c]
                /\ game'.current_player = game.current_player
      ]_vars

\* make_move returned False for a cell of the board that holds a mark
C13_Witness ==
    /\ variant = "rules" /\ returned.call = "make_move" /\ ~returned.value
    /\ returned.col \in Idx /\ returned.row \in Idx
    /\ game.board[returned.row][returned.col] = "O"
    /\ game.current_player = "O"

----------------------------------------------------------------------------
(* The two servers side by side *)

InitServers == InitServer \/ InitTerminal

NextServers ==
    \/ \E tokens \in Inbound : WaitingForPlayers(tokens)
    \/ StartGame
    \/ \E tokens \in Inbound : WaitingForMove(tokens)
    \/ ProcessMove
    \/ GameOver
    \/ \E tokens \in Inbound : TerminalLoop(tokens)

SpecServers == InitServers /\ [][NextServers]_vars

\* the server is waiting for a move of a started match
AwaitingMove ==
    \/ variant = "sm" /\ running /\ state = WAITING_FOR_MOVE
    \/ variant = "terminal" /\ running /\ game.present /\ Len(players) = 2

\* the server handles the message tokens in this step
Handles(tokens) ==
    \/ WaitingForPlayers(tokens)
    \/ WaitingForMove(tokens)
    \/ TerminalLoop(tokens)

\* the server has left its message loop for the end of the game
Over == IF variant = "sm" THEN state = GAME_OVER ELSE ~running

----------------------------------------------------------------------------
(* C14: while the server waits for a move, "resign <u>" from either of the *)
(* two players, on turn or not, makes it broadcast "won <v>", v being the  *)
(* other player, and end the game without changing the board.              *)

----------------------------------------------------------------------------
(* C15: in every state of the state-machine server, a malformed or         *)
(* unrecognized inbound message (too few tokens after the topic, "request  *)
(* join" or "resign" without a username, a move whose coordinates are not  *)
(* integers) is dropped: players, game and turn_index are unchanged,        *)
(* nothing is broadcast, no exception ends the loop, and the server goes   *)
(* on waiting for messages.                                                *)

C15_MalformedDropped ==
    [][ /\ \A m \in MalformedMessages :
              (variant = "sm" /\ running /\ Handles(m))
              => ( /\ UNCHANGED <<players, game, turn_index>>
                   /\ sent' = <<>>
                   /\ running'
                   /\ state' \in {state, PROCESS_MOVE} )
        /\ ( /\ variant = "sm" /\ running /\ state = PROCESS_MOVE
             /\ last_message \in MalformedMessages )
           => ( /\ UNCHANGED <<players, game, turn_index>>
                /\ sent' = <<>>
                /\ running'
                /\ state' = WAITING_FOR_MOVE )
      ]_vars

----------------------------------------------------------------------------
(* C16: once a server has fixed the two players and started the match, no  *)
(* later inbound message removes, replaces or adds an entry of players,    *)
(* in either server.                                                       *)

C16_PlayersFixed ==
    [][ game.present => players' = players ]_vars

----------------------------------------------------------------------------
(* tic_tac_toe_client_terminal_autodiscover.py: the client state machine.  *)
(* state is the client's state, sent what the iteration published,         *)
(* last_message the tokens of the message the iteration received, and      *)
(* client holds username, my_turn and the progress of discover_server:     *)
(* lan is what the network delivers on the discovery port, elapsed is      *)
(* time.time() - start in seconds, pc the position in the while loop.      *)

DISCOVER == "DISCOVER"
CONNECT == "CONNECT"
WAIT_JOIN == "WAIT_JOIN"
WAIT_START == "WAIT_START"
MY_TURN == "MY_TURN"
WAIT_UPDATE == "WAIT_UPDATE"

\* discover_server(port, timeout=10)
DiscoveryTimeout == 10

\* the clock is followed until the window has passed
MaxClock == DiscoveryTimeout + 1

ServerTopic == "server/"

\* the datagram of broadcast_ip, split at " "
ServerInfo == <<"broadcast/", "server_info", "ip", "to", "from">>

\* what recvfrom can return: nothing ever ("silent"), datagrams of other
\* senders only ("noise"), or these and the server's broadcast ("server")
Lans == {"silent", "noise", "server"}

Noise == {<<"hello">>, <<"broadcast/", "server_info", "ip">>, <<"a", "b", "c", "d", "e">>}

Packets(lan) ==
    CASE lan = "silent" -> {}
      [] lan = "noise" -> Noise
      [] lan = "server" -> Noise \cup {ServerInfo}

NoServerFound == Msg("No server found. Exiting.", "", <<>>)

\* msg.split() of what the server publishes, the board drawing being "B"
ServerMessages ==
    {<<ServerTopic, "joined", u>> : u \in Users}
    \cup {<<ServerTopic, "turn", u>> : u \in Users}
    \cup {<<ServerTopic, "won", u>> : u \in Users}
    \cup {<<ServerTopic, "update", "B">>, <<ServerTopic, "draw">>,
          <<ServerTopic, "error", "disconnect">>}

\* recv_string(flags=zmq.NOBLOCK): a message, or none (zmq.Again)
Received == ServerMessages \cup {NoMessage}

\* cmd of the iteration, "None" for None
Cmd(tokens) ==
    IF Len(tokens) >= 2 /\ At(tokens, 0) = ServerTopic THEN At(tokens, 1) ELSE "None"

\* move.split() of what the user types at the prompt of MY_TURN
Typed == {<<"resign">>, <<"1", "1">>, <<"0", "2">>, <<"3", "1">>, <<"x", "1">>, <<"1">>}

\* the while condition of discover_server, and what follows the loop when
\* it ends without a server: "No server found. Exiting." and return
DiscoverWhile ==
    /\ variant = "client" /\ running /\ state = DISCOVER /\ client.pc = "while"
    /\ IF client.elapsed < DiscoveryTimeout
       THEN /\ client' = [client EXCEPT !.pc = "recvfrom"]
            /\ sent' = <<>>
            /\ UNCHANGED running
       ELSE /\ sent' = <<NoServerFound>>
            /\ running' = FALSE
            /\ UNCHANGED client
    /\ UNCHANGED <<variant, session, state, players, turn_index, game, last_message,
                   edit, text, loaded, returned>>

\* sock.recvfrom(1024) on a blocking socket: returns when a datagram is there
Recvfrom(fields) ==
    /\ variant = "client" /\ running /\ state = DISCOVER /\ client.pc = "recvfrom"
    /\ fields \in Packets(client.lan)
    /\ IF Len(fields) >= 5 /\ At(fields, 1) = "server_info"
       THEN /\ state' = CONNECT
            /\ client' = [client EXCEPT !.pc = "", !.elapsed = 0]
       ELSE /\ client' = [client EXCEPT !.pc = "while"]
            /\ UNCHANGED state
    /\ sent' = <<>>
    /\ UNCHANGED <<variant, session, players, turn_index, game, last_message, running,
                   edit, text, loaded, returned>>

\* a second passes while the client discovers
Tick ==
    /\ variant = "client" /\ running /\ state = DISCOVER
    /\ client.elapsed < MaxClock
    /\ client' = [client EXCEPT !.elapsed = client.elapsed + 1]
    /\ UNCHANGED <<variant, session, state, players, turn_index, game, last_message, sent,
                   running, edit, text, loaded, returned>>

\* state == CONNECT
Connect(username) ==
    /\ variant = "client" /\ running /\ state = CONNECT
    /\ client' = [client EXCEPT !.username = username]
    /\ sent' = << <<Topic, "request", "join", username>> >>
    /\ state' = WAIT_JOIN
    /\ UNCHANGED <<variant, session, players, turn_index, game, last_message, running,
                   edit, text, loaded, returned>>

\* state == WAIT_JOIN
WaitJoin(tokens) ==
    /\ variant = "client" /\ running /\ state = WAIT_JOIN
    /\ last_message' = tokens
    /\ state' = IF Cmd(tokens) = "joined"
                THEN (IF At(tokens, Len(tokens) - 1) = client.username
                      THEN WAIT_START ELSE state)
                ELSE IF Cmd(tokens) = "error" THEN GAME_OVER
                ELSE state
    /\ sent' = <<>>
    /\ UNCHANGED <<variant, session, players, turn_index, game, running, edit, text, loaded,
                   returned, client>>

\* state == WAIT_START
WaitStart(tokens) ==
    /\ variant = "client" /\ running /\ state = WAIT_START
    /\ last_message' = tokens
    /\ IF Cmd(tokens) = "turn"
       THEN /\ client' = [client EXCEPT !.my_turn = (At(tokens, 2) = client.username)]
            /\ state' = IF client'.my_turn THEN MY_TURN ELSE WAIT_UPDATE
       ELSE /\ state' = IF Cmd(tokens) = "error" THEN GAME_OVER ELSE state
            /\ UNCHANGED client
    /\ sent' = <<>>
    /\ UNCHANGED <<variant, session, players, turn_index, game, running, edit, text, loaded,
                   returned>>

\* state == MY_TURN: the message of the iteration has been received, then
\* the user is prompted
MyTurn(tokens, move) ==
    /\ variant = "client" /\ running /\ state = MY_TURN
    /\ last_message' = tokens
    /\ IF move = <<"resign">>
       THEN /\ sent' = << <<Topic, "resign", client.username>> >>
            /\ state' = GAME_OVER
       ELSE IF Len(move) = 2 /\ CanInt(move[1]) /\ CanInt(move[2])
       THEN IF int(move[1]) \in 0..2 /\ int(move[2]) \in 0..2
            THEN /\ sent' = << <<Topic, move[1], move[2], client.username>> >>
                 /\ state' = WAIT_UPDATE
            ELSE /\ sent' = <<>>
                 /\ UNCHANGED state
       ELSE /\ sent' = <<>>
            /\ UNCHANGED state
    /\ UNCHANGED <<variant, session, players, turn_index, game, running, edit, text, loaded,
                   returned, client>>

\* state == WAIT_UPDATE
WaitUpdate(tokens) ==
    /\ variant = "client" /\ running /\ state = WAIT_UPDATE
    /\ last_message' = tokens
    /\ IF Cmd(tokens) = "turn"
       THEN /\ client' = [client EXCEPT !.my_turn = (At(tokens, 2) = client.username)]
            /\ state' = IF client'.my_turn THEN MY_TURN ELSE state
       ELSE /\ state' = IF Cmd(tokens) \in {"won", "draw", "error"}
                        THEN GAME_OVER ELSE state
            /\ UNCHANGED client
    /\ sent' = <<>>
    /\ UNCHANGED <<variant, session, players, turn_index, game, running, edit, text, loaded,
                   returned>>

\* state == GAME_OVER
ClientGameOver(tokens) ==
    /\ variant = "client" /\ running /\ state = GAME_OVER
    /\ last_message' = tokens
    /\ running' = FALSE
    /\ sent' = <<>>
    /\ UNCHANGED <<variant, session, state, players, turn_index, game, edit, text, loaded,
                   returned, client>>

InitClient ==
    /\ variant = "client"
    /\ state = DISCOVER
    /\ players = <<>>
    /\ turn_index = 0
    /\ game = NoGame
    /\ last_message = NoMessage
    /\ sent = <<>>
    /\ running = TRUE
    /\ edit = NoEdit
    /\ text = <<>>
    /\ loaded = NoGame
    /\ returned = NoCall
    /\ client \in {[username |-> "", my_turn |-> FALSE, lan |-> l, elapsed |-> 0,
                    pc |-> "while"] : l \in Lans}
    /\ Idle

NextClient ==
    \/ DiscoverWhile
    \/ \E fields \in Noise \cup {ServerInfo} : Recvfrom(fields)
    \/ Tick
    \/ \E username \in Users : Connect(username)
    \/ \E tokens \in Received : WaitJoin(tokens)
    \/ \E tokens \in Received : WaitStart(tokens)
    \/ \E tokens \in Received : \E move \in Typed : MyTurn(tokens, move)
    \/ \E tokens \in Received : WaitUpdate(tokens)
    \/ \E tokens \in Received : ClientGameOver(tokens)

\* the client process keeps running and its clock keeps advancing; a
\* blocking call returns once what it waits for is there
ClientFairness ==
    /\ WF_vars(DiscoverWhile)
    /\ WF_vars(\E fields \in Noise \cup {ServerInfo} : Recvfrom(fields))
    /\ WF_vars(Tick)

SpecClient == InitClient /\ [][NextClient]_vars /\ ClientFairness

----------------------------------------------------------------------------
(* C17: in the client, an "error" message received in any state after      *)
(* CONNECT (WAIT_JOIN, WAIT_START, MY_TURN or WAIT_UPDATE) moves the client *)
(* to GAME_OVER as its next transition.                                    *)

ErrorReceived == Cmd(last_message') = "error"

C17_ErrorEndsClient ==
    [][ ( /\ variant = "client" /\ running
          /\ state \in {WAIT_JOIN, WAIT_START, MY_TURN, WAIT_UPDATE}
          /\ ErrorReceived )
        => state' = GAME_OVER
      ]_vars

----------------------------------------------------------------------------
(* C18: if no discovery packet of a server arrives within the discovery    *)
(* window, the client eventually reports that no server was found and      *)
(* stops, and it never enters CONNECT: it stays in DISCOVER and publishes  *)
(* nothing.                                                                *)

NoServerOnLan == variant = "client" /\ client.lan # "server"

C18_DiscoveryTimeout ==
    /\ [](NoServerOnLan => (state = DISCOVER /\ sent \in {<<>>, <<NoServerFound>>}))
    /\ NoServerOnLan ~> (~running /\ sent = <<NoServerFound>>)

----------------------------------------------------------------------------
(* C19: every move a server accepts produces exactly one "update"          *)
(* broadcast followed by exactly one of "won <mover>", "draw" or           *)
(* "turn <other player>", in that order; "turn" is sent exactly when the   *)
(* game goes on, and then turn_index has flipped and the server waits for  *)
(* the next move.                                                          *)

GoesOn(b) == ~HasLine(b) /\ NumMarks(b) < 9

C19_AcceptedMoveBroadcasts ==
    [][ (variant \in {"sm", "terminal"} /\ BoardChanges) =>
          /\ Len(sent') = 2
          /\ sent'[1] = Msg("update", "", draw(game'))
          /\ sent'[2] = IF HasLine(game'.board) THEN Won(At(players, turn_index))
                        ELSE IF NumMarks(game'.board) = 9 THEN Draw
                        ELSE Turn(At(players, 1 - turn_index))
          /\ players' = players
          /\ IF GoesOn(game'.board)
             THEN /\ turn_index' = 1 - turn_index
                  /\ running'
                  /\ variant = "sm" => state' = WAITING_FOR_MOVE
             ELSE Over'
      ]_vars

\* the second player has moved, the game goes on and it is the first
\* player's turn again
C19_Witness ==
    /\ variant = "terminal" /\ running
    /\ NumMarks(game.board) = 2 /\ turn_index = 0
    /\ sent = <<Msg("update", "", draw(game)), Turn(At(players, 0))>>

----------------------------------------------------------------------------
(* C20: starting the game creates an empty board, sets turn_index to 0,    *)
(* leaves players a permutation of the two joined usernames, either order  *)
(* being possible, and broadcasts "update <empty board>" and then          *)
(* "turn <players[0]>"; no move has been accepted before, and the          *)
(* state-machine server is then in WAITING_FOR_MOVE.                       *)

\* the two orders of the two users
Orders == {q \in [1..2 -> Users] : q[1] # q[2]}

\* the step creates the GameState
Starts == variant \in {"sm", "terminal"} /\ ~game.present /\ game'.present

C20_StartGame ==
    /\ [][ Starts =>
             /\ game'.board = EmptyBoard
             /\ NumMarks(game.board) = 0
             /\ turn_index' = 0
             /\ players' \in Orders
             /\ Range(players) \subseteq Range(players')
             /\ Len(sent') >= 2
             /\ sent'[Len(sent') - 1] = Msg("update", "", draw(game'))
             /\ sent'[Len(sent')] = Turn(players'[1])
             /\ running'
             /\ variant = "sm" => state' = WAITING_FOR_MOVE
         ]_vars
    /\ [](( variant = "sm" /\ running /\ state = START_GAME) =>
              \A q \in Orders : ENABLED (StartGame /\ players' = q))
    /\ [](( variant = "terminal" /\ running /\ ~game.present /\ Len(players) = 1) =>
              \A q \in Orders :
                  ENABLED ((\E tokens \in JoinMessages : TerminalLoop(tokens))
                           /\ players' = q))

\* the state machine has started the game with the players in the order
\* bob, alice
C20_Witness ==
    /\ variant = "sm" /\ running /\ state = WAITING_FOR_MOVE
    /\ players = <<"bob", "alice">>
    /\ game.present /\ NumMarks(game.board) = 0 /\ turn_index = 0
    /\ sent = <<Msg("update", "", draw(game)), Turn("bob")>>

----------------------------------------------------------------------------
(* C21: in the lobby, "request join <u>" adds u and broadcasts             *)
(* "joined <u>" only when u is not already in players; a repeated request  *)
(* adds nothing and broadcasts nothing; the server leaves the lobby to     *)
(* start the game exactly when players holds two distinct usernames.       *)

\* the server is still gathering players: no game has been started
Lobby ==
    \/ variant = "sm" /\ state = WAITING_FOR_PLAYERS
    \/ variant = "terminal" /\ ~game.present

TwoDistinct(ps) == Len(ps) = 2 /\ ps[1] # ps[2]

C21_LobbyJoin ==
    [][ /\ \A u \in Users :
              (Lobby /\ running /\ Handles(<<Topic, "request", "join", u>>)) =>
                  /\ Range(players') = Range(players) \cup {u}
                  /\ Len(players') = Cardinality(Range(players) \cup {u})
                  /\ (Joined(u) \in Range(sent')) = (u \notin Range(players))
                  /\ u \in Range(players) => (players' = players /\ sent' = <<>>)
                  /\ (~Lobby') = TwoDistinct(players')
        /\ (variant \in {"sm", "terminal"} /\ Lobby /\ ~Lobby') => TwoDistinct(players')
        /\ (variant \in {"sm", "terminal"} /\ Lobby) => Len(players) < 2
      ]_vars

\* the second player has just joined and the state machine has left the lobby
C21_Witness ==
    /\ variant = "sm" /\ running /\ state = START_GAME
    /\ players = <<"bob", "alice">>
    /\ sent = <<Joined("alice")>>

----------------------------------------------------------------------------
(* C22: "resign <u>" received in the lobby empties the player list,        *)
(* broadcasts nothing and leaves the server in the lobby with no game      *)
(* created, so that two distinct joins are needed again to start.          *)

C22_LobbyResign ==
    [][ \A m \in ResignMessages :
          (Lobby /\ running /\ Handles(m)) =>
              /\ players' = <<>>
              /\ sent' = <<>>
              /\ Lobby' /\ state' = state /\ running'
              /\ ~game'.present
      ]_vars

\* one player waits in the lobby and a resign is about to empty the list
C22_Witness ==
    /\ variant = "sm" /\ running /\ state = WAITING_FOR_PLAYERS
    /\ players = <<"alice">>
    /\ ENABLED (WaitingForPlayers(<<Topic, "resign", "alice">>) /\ players' = <<>>)

----------------------------------------------------------------------------
(* C23: "request join <u>" reaching a server that waits for a move of a    *)
(* started match, from a new or a joined username, is ignored: players,    *)
(* board, turn_index and state are unchanged, nothing is broadcast and the *)
(* match continues.                                                        *)

C23_LateJoinIgnored ==
    [][ /\ \A m \in JoinMessages :
              (AwaitingMove /\ Handles(m)) =>
                  /\ UNCHANGED <<players, game, turn_index>>
                  /\ sent' = <<>>
                  /\ running'
                  /\ state' \in {state, PROCESS_MOVE}
        /\ ( /\ variant = "sm" /\ running /\ state = PROCESS_MOVE
             /\ last_message \in JoinMessages )
           => ( /\ UNCHANGED <<players, game, turn_index>>
                /\ sent' = <<>>
                /\ running'
                /\ state' = WAITING_FOR_MOVE )
      ]_vars

----------------------------------------------------------------------------
(* C24: while a server waits for a move, "resign <u>" with u not one of    *)
(* the two players is ignored: no "won" is broadcast, players is unchanged *)
(* and the server goes on waiting for a move.                              *)

C24_StrangerResignIgnored ==
    [][ \A u \in Strangers :
          (AwaitingMove /\ u \notin Range(players) /\ Handles(<<Topic, "resign", u>>)) =>
              /\ WonSent(sent') = {}
              /\ players' = players
              /\ AwaitingMove' /\ state' = state
      ]_vars

----------------------------------------------------------------------------
(* C25: an exception raised while a server processes a move (int() of a    *)
(* coordinate that is not an integer) is caught; the server broadcasts     *)
(* "error disconnect" exactly once, accepts no further message and         *)
(* terminates without retrying.                                            *)

\* 4-token messages that are not "request join <u>" and whose coordinates
\* int() does not accept
BadMoves == {m \in MalformedMessages : Len(m) = 4}

C25_MoveExceptionEnds ==
    [][ /\ ( /\ variant = "sm" /\ running /\ state = PROCESS_MOVE
             /\ ~IsMove(last_message) )
           => ( /\ sent' = <<Msg("error", "disconnect", <<>>)>>
                /\ state' = GAME_OVER
                /\ UNCHANGED <<game, players, turn_index>> )
        /\ (variant = "sm" /\ running /\ state = GAME_OVER)
           => ( /\ ~running'
                /\ sent' = <<>>
                /\ UNCHANGED <<game, players, turn_index, state>> )
        /\ \A m \in BadMoves :
              (variant = "terminal" /\ AwaitingMove /\ TerminalLoop(m))
              => ( /\ sent' = <<Msg("error", "disconnect", <<>>)>>
                   /\ ~running'
                   /\ UNCHANGED <<game, players, turn_index>> )
        /\ variant \in {"sm", "terminal"} => running
      ]_vars

\* the state machine has caught the exception of a move mid-game and has
\* broadcast "error disconnect"
C25_Witness ==
    /\ variant = "sm" /\ running /\ state = GAME_OVER
    /\ NumMarks(game.board) = 2
    /\ sent = <<ErrorDisconnect>>

----------------------------------------------------------------------------
(* C26: once the state-machine server has broadcast a final outcome        *)
(* ("won", "draw" or "error disconnect") it is in GAME_OVER or has left    *)
(* its loop, and stays so: nothing changes the board, the current player,  *)
(* turn_index or players any more and nothing further is broadcast, so a   *)
(* session emits exactly one final outcome.                                *)

FinalOutcomes(msgs) == {i \in 1..Len(msgs) : msgs[i].cmd \in {"won", "draw", "error"}}

Ended == ~running \/ state = GAME_OVER

----------------------------------------------------------------------------
(* A new GameState on which make_move is called again and again, whatever  *)
(* the calls return and whether or not the game is won or the board full.  *)

InitPlay ==
    /\ variant = "play"
    /\ state = LOOP
    /\ players = <<>>
    /\ turn_index = 0
    /\ game = NewGame
    /\ last_message = NoMessage
    /\ sent = <<>>
    /\ running = TRUE
    /\ edit = NoEdit
    /\ text = <<>>
    /\ loaded = NoGame
    /\ returned = NoCall
    /\ client = NoClient
    /\ Idle

\* game.make_move(col, row), one call after another
MakeMoveAgain(col, row) ==
    /\ variant = "play"
    /\ game' = make_move(game, col, row)
    /\ returned' = [call |-> "make_move", col |-> col, row |-> row,
                    value |-> MoveAccepted(game, col, row)]
    /\ UNCHANGED <<variant, session, state, players, turn_index, last_message, sent,
                   running, edit, text, loaded, client>>

NextPlay == \E m \in MoveArgs : MakeMoveAgain(m[1], m[2])

SpecPlay == InitPlay /\ [][NextPlay]_vars

----------------------------------------------------------------------------
(* C27: a GameState is immutable once terminal: after inspect_win has      *)
(* become true or the board is full, every call of make_move returns False *)
(* and changes neither the board nor the current player.                   *)

C27_TerminalImmutable ==
    [][ ( /\ variant = "play" /\ returned'.call = "make_move"
          /\ (HasLine(game.board) \/ NumMarks(game.board) = 9) )
        => (~returned'.value /\ game' = game)
      ]_vars

----------------------------------------------------------------------------
(* C28: the session invariant.  The game object exists in WAITING_FOR_MOVE, *)
(* PROCESS_MOVE and GAME_OVER and does not exist in the lobby              *)
(* (START_GAME, which creates it, is counted with neither); and whenever   *)
(* the server has left the lobby, players holds exactly two distinct       *)
(* usernames and turn_index is 0 or 1.                                     *)

C28_SessionInvariant ==
    variant \in {"sm", "terminal"} =>
        /\ variant = "sm" =>
              /\ state \in {WAITING_FOR_MOVE, PROCESS_MOVE, GAME_OVER} => game.present
              /\ state = WAITING_FOR_PLAYERS => ~game.present
        /\ ~Lobby => (TwoDistinct(players) /\ turn_index \in {0, 1})

----------------------------------------------------------------------------
(* C29: in every GameState reached from a new game by any sequence of      *)
(* make_move calls, accepted or rejected, the number of X marks equals the *)
(* number of O marks or exceeds it by exactly one, and the current player  *)
(* is X exactly when the counts are equal.                                 *)

C29_CountsAndPlayer ==
    variant = "play" =>
        /\ \/ NumOf(game.board, "X") = NumOf(game.board, "O")
           \/ NumOf(game.board, "X") = NumOf(game.board, "O") + 1
        /\ (game.current_player = "X") =
              (NumOf(game.board, "X") = NumOf(game.board, "O"))

\* the calls went on after a win until both symbols had a line, and the
\* last call was rejected
C29_Witness ==
    /\ variant = "play"
    /\ HasLineOf(game.board, "X") /\ HasLineOf(game.board, "O")
    /\ returned.call = "make_move" /\ ~returned.value
    /\ game.current_player = "O"

----------------------------------------------------------------------------
(* C30: an accepted make_move(col, row) sets board[row][col] to the        *)
(* mover's mark, changes no other cell, and does not itself change whose   *)
(* turn it is: alternation is left to the caller.                          *)

C30_MoveSetsOneCell ==
    [][ (variant = "play" /\ returned'.call = "make_move" /\ returned'.value) =>
          /\ game'.board[returned'.row][returned'.col] = game.current_player
          /\ \A r \in Idx : \A c \in Idx :
                (<<r, c>> # <<returned'.row, returned'.col>>)
                    => game'.board[r][c] = game.board[r][c]
          /\ game'.current_player = game.current_player
      ]_vars

----------------------------------------------------------------------------
(* C34: whenever the state-machine server is in WAITING_FOR_MOVE,          *)
(* turn_index is 0 exactly when the GameState's current player is X, and   *)
(* every accepted move places the symbol of the player who sent it:        *)
(* X for players[0], O for players[1].                                     *)

\* the symbol players[0] and players[1] play
SymbolOf(u) == IF u = At(players, 0) THEN "X" ELSE "O"

C34_TurnIndexIsSymbol ==
    /\ []( (variant = "sm" /\ state = WAITING_FOR_MOVE) =>
            (turn_index = 0 <=> game.current_player = "X") )
    /\ [][ (variant = "sm" /\ BoardChanges) =>
            /\ At(last_message, 3) \in Range(players)
            /\ \A rc \in Idx \X Idx :
                 game'.board[rc[1]][rc[2]] # game.board[rc[1]][rc[2]] =>
                   game'.board[rc[1]][rc[2]] = SymbolOf(At(last_message, 3))
          ]_vars

\* both players have moved once and the first one is on turn again
C34_Witness ==
    /\ variant = "sm" /\ running /\ state = WAITING_FOR_MOVE
    /\ NumOf(game.board, "X") = 1 /\ NumOf(game.board, "O") = 1
    /\ turn_index = 0 /\ game.current_player = "X"

----------------------------------------------------------------------------
(* A match of the state-machine server in which the player on turn keeps   *)
(* submitting moves: the SUB socket delivers join requests in the lobby    *)
(* and moves afterwards, and a move of players[turn_index] is received     *)
(* again and again for as long as the server waits for moves.  Each user   *)
(* sends cells of a set of their own; the two sets cover the board, share  *)
(* two cells, hold a line each and allow a drawn board.                    *)

\* the <<col, row>> tokens a user sends, and one column beside the board
MatchCells(u) ==
    IF u = "alice"
    THEN {<<"0", "0">>, <<"2", "0">>, <<"0", "1">>, <<"0", "2">>, <<"1", "2">>,
          <<"2", "2">>, <<"3", "1">>}
    ELSE {<<"1", "0">>, <<"1", "1">>, <<"2", "1">>, <<"0", "2">>, <<"1", "2">>,
          <<"3", "1">>}

MatchMoves == UNION {{<<Topic, m[1], m[2], u>> : m \in MatchCells(u)} : u \in Users}

NextMatch ==
    \/ \E tokens \in JoinMessages : WaitingForPlayers(tokens)
    \/ StartGame
    \/ \E tokens \in MatchMoves \cup BadMoves : WaitingForMove(tokens)
    \/ ProcessMove
    \/ GameOver

\* recv_string() returns a move of the player on turn
MoveOfCurrentPlayer ==
    \E tokens \in MatchMoves :
        /\ WaitingForMove(tokens)
        /\ At(tokens, 3) = At(players, turn_index)

\* the loop keeps iterating, and the player on turn keeps submitting
MatchFairness ==
    /\ WF_vars(ProcessMove)
    /\ WF_vars(GameOver)
    /\ SF_vars(MoveOfCurrentPlayer)

SpecMatch == InitServer /\ [][NextMatch]_vars /\ MatchFairness

----------------------------------------------------------------------------
(* C35: a match always ends.  Every accepted move fills one more cell, so  *)
(* at most 9 moves are accepted; the ninth accepted move yields "won" or   *)
(* "draw", never "turn", and ends the game; and if the player on turn      *)
(* keeps submitting moves, legal or illegal, the server eventually reaches *)
(* GAME_OVER.                                                              *)

TurnSent(msgs) == \E i \in 1..Len(msgs) : msgs[i].cmd = "turn"

C35_MatchEnds ==
    /\ []( game.present => NumMarks(game.board) <= 9 )
    /\ [][ BoardChanges =>
            /\ NumMarks(game'.board) = NumMarks(game.board) + 1
            /\ NumMarks(game'.board) = 9 =>
                 /\ state' = GAME_OVER
                 /\ ~TurnSent(sent')
                 /\ sent'[Len(sent')] \in {Draw} \cup {Won(u) : u \in Range(players)}
          ]_vars
    /\ (state = WAITING_FOR_MOVE) ~> (state = GAME_OVER)

\* the board is full without a line and the game is over with a draw
C35_Witness ==
    /\ state = GAME_OVER /\ NumMarks(game.board) = 9 /\ ~HasLine(game.board)
    /\ sent = <<Update(game), Draw>>

----------------------------------------------------------------------------
(* C37: every board load_game_string accepts is reachable from the empty   *)
(* board by alternating legal moves, X first, play stopping at the first   *)
(* completed line, and the current player it sets is the player who would  *)
(* move next in that play.                                                 *)

\* g is reached by a play: it is the new game, or make_move gives it from
\* a game that is reached by a play and has no completed line
RECURSIVE Played(_)
Played(g) ==
    \/ g = NewGame
    \/ LET mover == IF g.current_player = "X" THEN "O" ELSE "X"
       IN  \E rc \in Idx \X Idx :
             /\ g.board[rc[1]][rc[2]] = mover
             /\ LET before == [g EXCEPT !.board[rc[1]][rc[2]] = Empty,
                                        !.current_player = mover]
                IN  /\ ~inspect_win(before)
                    /\ make_move(before, rc[2], rc[1]) = g
                    /\ Played(before)

C37_AcceptedIsPlayed == loaded.present => Played(loaded)

\* a board is accepted in which the last move of X completed two lines
C37_Witness ==
    /\ variant = "parse" /\ ~running /\ loaded.present
    /\ Cardinality({L \in LineCoords :
                      \A rc \in L : loaded.board[rc[1]][rc[2]] = "X"}) = 2
    /\ loaded.current_player = "O"

----------------------------------------------------------------------------
(* A server and its discovery broadcaster: main runs the arbitration loop  *)
(* of tic_tac_toe_server.py or tic_tac_toe_server_terminal.py, the thread  *)
(* runs broadcast_ip.  threads.main is "try" while main is in its try      *)
(* block, "finally" after the finally block, "exit" when the process has   *)
(* ended; threads.broadcaster is the thread's position in broadcast_ip;    *)
(* threads.sendto is the outcome of its last sendto.                       *)

\* the variables of the arbitration loop
arbitration == <<state, players, turn_index, game, last_message, sent, running>>

\* the variables of the other programs
elsewhere == <<edit, text, loaded, returned, client, servers, clients, sub_sockets>>

\* the messages the SUB socket delivers while the broadcaster is followed
BroadcastInbound ==
    {<<Topic, "request", "join", "alice">>, <<Topic, "request", "join", "bob">>,
     <<Topic, "resign", "alice">>, <<Topic, "1", "1", "alice">>,
     <<Topic, "1", "1", "bob">>, <<Topic>>}

\* the thread is inside the while loop of broadcast_ip
Broadcasting == threads.broadcaster \in {"while", "sendto", "sleep"}

\* while not stop_flag["stop"]; after the loop the function returns
BroadcastWhile ==
    /\ threads.broadcaster = "while"
    /\ threads' = [threads EXCEPT !.broadcaster = IF stop_flag THEN "returned"
                                                  ELSE "sendto"]
    /\ UNCHANGED <<variant, arbitration, stop_flag, elsewhere>>

\* sock.sendto(...): it succeeds or raises.  tic_tac_toe_server.py passes
\* in "except Exception"; tic_tac_toe_server_terminal.py has no try, the
\* exception ends the thread
Sendto(ok) ==
    /\ threads.broadcaster = "sendto"
    /\ threads' = [threads EXCEPT
                     !.sendto = IF ok THEN "sent" ELSE "failed",
                     !.broadcaster = IF ok \/ variant = "sm" THEN "sleep"
                                     ELSE "raised"]
    /\ UNCHANGED <<variant, arbitration, stop_flag, elsewhere>>

\* time.sleep(1)
Sleep ==
    /\ threads.broadcaster = "sleep"
    /\ threads' = [threads EXCEPT !.broadcaster = "while"]
    /\ UNCHANGED <<variant, arbitration, stop_flag, elsewhere>>

\* except KeyboardInterrupt: the loop is left with "error disconnect"
Interrupt ==
    /\ running /\ threads.main = "try"
    /\ sent' = <<ErrorDisconnect>>
    /\ running' = FALSE
    /\ UNCHANGED <<variant, state, players, turn_index, game, last_message,
                   stop_flag, threads, elsewhere>>

\* the finally block: tic_tac_toe_server.py sets stop_flag["stop"] = True,
\* tic_tac_toe_server_terminal.py only closes its sockets
Finally ==
    /\ ~running /\ threads.main = "try"
    /\ stop_flag' = (stop_flag \/ variant = "sm")
    /\ threads' = [threads EXCEPT !.main = "finally"]
    /\ UNCHANGED <<variant, arbitration, elsewhere>>

\* main returns and the process ends: a daemon thread ends with it
Return ==
    /\ threads.main = "finally"
    /\ threads' = [threads EXCEPT !.main = "exit",
                                  !.broadcaster = IF Broadcasting THEN "killed" ELSE @]
    /\ UNCHANGED <<variant, arbitration, stop_flag, elsewhere>>

\* the state when the loop is entered; auto_discover is False under
\* --no_broadcast, which only tic_tac_toe_server.py knows
InitBroadcast ==
    /\ variant \in {"sm", "terminal"}
    /\ state = IF variant = "sm" THEN WAITING_FOR_PLAYERS ELSE LOOP
    /\ players = <<>>
    /\ turn_index = 0
    /\ game = NoGame
    /\ last_message = NoMessage
    /\ sent = <<>>
    /\ running = TRUE
    /\ edit = NoEdit
    /\ text = <<>>
    /\ loaded = NoGame
    /\ returned = NoCall
    /\ client = NoClient
    /\ stop_flag = FALSE
    /\ threads \in {[main |-> "try", broadcaster |-> b, sendto |-> "none"] :
                       b \in IF variant = "sm" THEN {"while", "off"} ELSE {"while"}}
    /\ servers = <<>>
    /\ clients = <<>>
    /\ sub_sockets = <<>>

\* the arbitration loop is followed while main is in its try block
NextBroadcast ==
    \/ \E tokens \in BroadcastInbound : WaitingForPlayers(tokens)
    \/ StartGame
    \/ \E tokens \in BroadcastInbound : WaitingForMove(tokens)
    \/ ProcessMove
    \/ GameOver
    \/ \E tokens \in BroadcastInbound : TerminalLoop(tokens)
    \/ Interrupt
    \/ Finally
    \/ Return
    \/ BroadcastWhile
    \/ \E ok \in BOOLEAN : Sendto(ok)
    \/ Sleep

SpecBroadcast == InitBroadcast /\ [][NextBroadcast]_vars

----------------------------------------------------------------------------
(* C32: a failed send in the discovery broadcaster does not stop it: the   *)
(* failure is swallowed, the broadcaster goes on to its next tick and      *)
(* sends again, and the arbitration loop is not affected; for the          *)
(* broadcaster of both server variants.                                    *)

\* the step is a sendto that raises
SendFails == Sendto(FALSE)

C32_SendFailureSwallowed ==
    [][ SendFails =>
          /\ threads'.broadcaster = "sleep"
          /\ UNCHANGED <<arbitration, stop_flag>>
      ]_vars

----------------------------------------------------------------------------
(* C33: when the arbitration loop of a server has ended (game over, error  *)
(* or interrupt), the broadcaster has been signalled to stop once the      *)
(* finally block is done, and it sends no datagram once the server has     *)
(* shut down; for both server variants.                                    *)

C33_BroadcasterStopped ==
    /\ threads.main \in {"finally", "exit"} => stop_flag
    /\ threads.main = "exit" => ~Broadcasting

----------------------------------------------------------------------------
(* A session: the server of tic_tac_toe_server.py and the clients of       *)
(* tic_tac_toe_client_terminal_autodiscover.py, one process each, joined   *)
(* by the PUB/SUB sockets.  servers.sm is the server's loop variables and  *)
(* what its last iteration broadcast; clients[u] is the loop variables of  *)
(* the client whose user typed the username u; sub_sockets[p] is the       *)
(* messages delivered to the SUB socket of process p and not yet received. *)
(* The transport delivers every message, in order, to every socket that is *)
(* connected when it is sent.                                              *)

\* the server's variables when its loop is entered
NewServer ==
    [state |-> WAITING_FOR_PLAYERS, players |-> <<>>, turn_index |-> 0,
     game |-> NoGame, last_message |-> NoMessage, running |-> TRUE, sent |-> <<>>]

\* the outer "except": broadcast "error disconnect", then finally
Raised(s) == [s EXCEPT !.sent = <<ErrorDisconnect>>, !.running = FALSE]

\* one iteration of "while True" of tic_tac_toe_server.py: tokens is what
\* recv_string() returned, where the state receives, and order is the list
\* random.shuffle leaves
Machine(s, tokens, order) ==
    LET quiet == [s EXCEPT !.sent = <<>>]
    IN  CASE s.state = WAITING_FOR_PLAYERS ->
               IF Len(tokens) < 2 THEN Raised(s)
               ELSE IF At(tokens, 1) = "request"
               THEN IF Len(tokens) < 3 THEN Raised(s)
                    ELSE IF At(tokens, 2) = "join"
                    THEN IF Len(tokens) < 4 THEN Raised(s)
                         ELSE LET username == At(tokens, 3)
                                  joined == Join(s.players, username)
                              IN  [s EXCEPT
                                     !.players = joined,
                                     !.sent = IF username \in Range(s.players)
                                              THEN <<>> ELSE <<Joined(username)>>,
                                     !.state = IF Len(joined) = 2 THEN START_GAME
                                               ELSE @]
                    ELSE quiet
               ELSE IF At(tokens, 1) = "resign"
               THEN [quiet EXCEPT !.players = <<>>]
               ELSE quiet
          [] s.state = START_GAME ->
               [s EXCEPT !.game = NewGame,
                         !.players = order,
                         !.turn_index = 0,
                         !.sent = <<Update(NewGame), Turn(At(order, 0))>>,
                         !.state = WAITING_FOR_MOVE]
          [] s.state = WAITING_FOR_MOVE ->
               IF Len(tokens) < 2 \/ (At(tokens, 1) = "resign" /\ Len(tokens) < 3)
               THEN [Raised(s) EXCEPT !.last_message = NoMessage]
               ELSE IF At(tokens, 1) = "resign"
               THEN [s EXCEPT !.sent = <<Won(Opponent(s.players, At(tokens, 2)))>>,
                              !.state = GAME_OVER,
                              !.last_message = NoMessage]
               ELSE IF Len(tokens) = 4
               THEN [quiet EXCEPT !.state = PROCESS_MOVE, !.last_message = tokens]
               ELSE [quiet EXCEPT !.last_message = NoMessage]
          [] s.state = PROCESS_MOVE ->
               LET r == HandleMove(s.last_message, s.players, s.turn_index, s.game)
               IN  [s EXCEPT !.game = r.game,
                             !.turn_index = r.turn_index,
                             !.sent = r.sent,
                             !.state = IF r.end \in {"over", "error"} THEN GAME_OVER
                                       ELSE WAITING_FOR_MOVE,
                             !.last_message = NoMessage]
          [] s.state = GAME_OVER ->
               [quiet EXCEPT !.running = FALSE]

\* the states whose iteration starts with the blocking recv_string()
Receives(s) == s.state \in {WAITING_FOR_PLAYERS, WAITING_FOR_MOVE}

\* msg.split() at the client of what send_server_message publishes; the
\* drawing of an update is the token "B"
Split(m) ==
    IF m.cmd = "update" THEN <<ServerTopic, "update", "B">>
    ELSE IF m.user = "" THEN <<ServerTopic, m.cmd>>
    ELSE <<ServerTopic, m.cmd, m.user>>

\* the client's variables when its sockets are to be set up, the username
\* being what the user will type
NewClient(u) ==
    [state |-> CONNECT, username |-> u, my_turn |-> FALSE, pc |-> "recv",
     running |-> TRUE]

\* mutant: the client takes the confirmation of any join for its own
Confirmed_Anyone(c, tokens) == TRUE

\* tokens[-1] == username
Confirmed(c, tokens) == At(tokens, Len(tokens) - 1) = c.username

\* one iteration of "while running" of the client from the non-blocking
\* recv_string on, tokens being what it returned (NoMessage for zmq.Again);
\* in MY_TURN the iteration goes on to input(), where pc is "input"
ClientPoll(c, tokens) ==
    LET cmd == Cmd(tokens)
    IN  CASE c.state = WAIT_JOIN ->
               [c EXCEPT !.state =
                   IF cmd = "joined"
                   THEN (IF Confirmed(c, tokens) THEN WAIT_START ELSE @)
                   ELSE IF cmd = "error" THEN GAME_OVER
                   ELSE @]
          [] c.state = WAIT_START ->
               IF cmd = "turn"
               THEN [c EXCEPT !.my_turn = (At(tokens, 2) = c.username),
                              !.state = IF At(tokens, 2) = c.username
                                        THEN MY_TURN ELSE WAIT_UPDATE]
               ELSE IF cmd = "error" THEN [c EXCEPT !.state = GAME_OVER]
               ELSE c
          [] c.state = MY_TURN ->
               [c EXCEPT !.pc = "input"]
          [] c.state = WAIT_UPDATE ->
               IF cmd = "turn"
               THEN [c EXCEPT !.my_turn = (At(tokens, 2) = c.username),
                              !.state = IF At(tokens, 2) = c.username
                                        THEN MY_TURN ELSE @]
               ELSE IF cmd \in {"won", "draw", "error"}
               THEN [c EXCEPT !.state = GAME_OVER]
               ELSE c
          [] c.state = GAME_OVER ->
               [c EXCEPT !.running = FALSE]

\* state == MY_TURN from the return of input() on, move being move.split()
\* of what the user typed: the client's variables and what it publishes
ClientInput(c, move) ==
    IF move = <<"resign">>
    THEN [client |-> [c EXCEPT !.state = GAME_OVER, !.pc = "recv"],
          published |-> << <<Topic, "resign", c.username>> >>]
    ELSE IF /\ Len(move) = 2 /\ CanInt(move[1]) /\ CanInt(move[2])
            /\ int(move[1]) \in 0..2 /\ int(move[2]) \in 0..2
    THEN [client |-> [c EXCEPT !.state = WAIT_UPDATE, !.pc = "recv"],
          published |-> << <<Topic, move[1], move[2], c.username>> >>]
    ELSE [client |-> [c EXCEPT !.pc = "recv"], published |-> <<>>]

\* the client's SUB socket is connected and open
Subscribed(c) == c.running /\ c.state # CONNECT

\* what the users type at the prompt of MY_TURN: a resignation, a text that
\* is no move, a move beside the board, and two cells
SessionTyped ==
    {<<"resign">>, <<"x", "1">>, <<"3", "1">>, <<"0", "0">>, <<"1", "1">>}

\* the variables of the single programs
offstage ==
    <<variant, arbitration, edit, text, loaded, returned, client, stop_flag, threads>>

\* the client publishes msgs: they reach the server's SUB socket while the
\* server is running
Publish(sockets, msgs) ==
    IF servers.sm.running
    THEN [sockets EXCEPT !["server"] = @ \o msgs]
    ELSE sockets

\* state == CONNECT of client u: sockets are connected, the join is sent
SessionConnect(u) ==
    /\ clients[u].running /\ clients[u].state = CONNECT
    /\ clients' = [clients EXCEPT ![u].state = WAIT_JOIN]
    /\ sub_sockets' = Publish(sub_sockets,
                               << <<Topic, "request", "join", clients[u].username>> >>)
    /\ UNCHANGED <<offstage, servers>>

\* an iteration of client u that starts with recv_string(flags=zmq.NOBLOCK)
SessionPoll(u) ==
    /\ Subscribed(clients[u]) /\ clients[u].pc = "recv"
    /\ LET queue == sub_sockets[u]
           tokens == IF queue = <<>> THEN NoMessage ELSE Head(queue)
       IN  /\ clients' = [clients EXCEPT ![u] = ClientPoll(@, tokens)]
           /\ sub_sockets' = [sub_sockets EXCEPT
                                ![u] = IF queue = <<>> THEN @ ELSE Tail(@)]
    /\ UNCHANGED <<offstage, servers>>

\* input() of client u returns
SessionInput(u, move) ==
    /\ clients[u].running /\ clients[u].state = MY_TURN /\ clients[u].pc = "input"
    /\ LET r == ClientInput(clients[u], move)
       IN  /\ clients' = [clients EXCEPT ![u] = r.client]
           /\ sub_sockets' = Publish(sub_sockets, r.published)
    /\ UNCHANGED <<offstage, servers>>

\* except KeyboardInterrupt of client u: it resigns and ends
ClientInterrupt(u) ==
    /\ Subscribed(clients[u])
    /\ clients' = [clients EXCEPT ![u].running = FALSE]
    /\ sub_sockets' = Publish(sub_sockets, << <<Topic, "resign", clients[u].username>> >>)
    /\ UNCHANGED <<offstage, servers>>

\* the server's broadcast reaches every connected SUB socket
Broadcast(sockets, msgs) ==
    [p \in DOMAIN sockets |->
        IF p # "server" /\ Subscribed(clients[p])
        THEN sockets[p] \o [i \in 1..Len(msgs) |-> Split(msgs[i])]
        ELSE sockets[p]]

\* an iteration of the server's loop
SessionServer ==
    /\ servers.sm.running
    /\ Receives(servers.sm) => sub_sockets["server"] # <<>>
    /\ \E order \in (IF servers.sm.state = START_GAME
                     THEN Shuffles(servers.sm.players) ELSE {servers.sm.players}) :
         LET tokens == IF Receives(servers.sm) THEN Head(sub_sockets["server"])
                       ELSE NoMessage
             r == Machine(servers.sm, tokens, order)
             rest == IF Receives(servers.sm)
                     THEN [sub_sockets EXCEPT !["server"] = Tail(@)]
                     ELSE sub_sockets
         IN  /\ servers' = [servers EXCEPT !.sm = r]
             /\ sub_sockets' = Broadcast(rest, r.sent)
    /\ UNCHANGED <<offstage, clients>>

\* except KeyboardInterrupt of the server
ServerInterrupt ==
    /\ servers.sm.running
    /\ servers' = [servers EXCEPT !.sm = Raised(@)]
    /\ sub_sockets' = Broadcast(sub_sockets, <<ErrorDisconnect>>)
    /\ UNCHANGED <<offstage, clients>>

InitSession ==
    /\ variant = "session"
    /\ state = LOOP
    /\ players = <<>>
    /\ turn_index = 0
    /\ game = NoGame
    /\ last_message = NoMessage
    /\ sent = <<>>
    /\ running = TRUE
    /\ edit = NoEdit
    /\ text = <<>>
    /\ loaded = NoGame
    /\ returned = NoCall
    /\ client = NoClient
    /\ stop_flag = FALSE
    /\ threads = NoThreads
    /\ servers = [sm |-> NewServer]
    /\ clients = [u \in Users |-> NewClient(u)]
    /\ sub_sockets = [p \in {"server"} \cup Users |-> <<>>]

NextSession ==
    \/ \E u \in Users : SessionConnect(u)
    \/ \E u \in Users : SessionPoll(u)
    \/ \E u \in Users : \E move \in SessionTyped : SessionInput(u, move)
    \/ \E u \in Users : ClientInterrupt(u)
    \/ SessionServer
    \/ ServerInterrupt

\* every process keeps running its loop, and the user answers every prompt
SessionFairness ==
    /\ WF_vars(SessionServer)
    /\ \A u \in Users :
         /\ WF_vars(SessionConnect(u))
         /\ WF_vars(SessionPoll(u))
         /\ WF_vars(\E move \in SessionTyped : SessionInput(u, move))

SpecSession == InitSession /\ [][NextSession]_vars /\ SessionFairness

----------------------------------------------------------------------------
(* C31: no server message delivered to a client is lost on the client      *)
(* side: a message that is queued at the client's SUB socket while the     *)
(* client is in MY_TURN stays queued, to be handled by the state logic on  *)
(* a later poll after the client has left MY_TURN.                         *)

\* every message of before is still queued in after, in its place
StaysQueued(before, after) ==
    /\ Len(after) >= Len(before)
    /\ SubSeq(after, 1, Len(before)) = before

C31_QueuedInMyTurn ==
    [][ \A u \in DOMAIN clients :
          (clients[u].running /\ clients[u].state = MY_TURN) =>
            StaysQueued(sub_sockets[u], sub_sockets'[u])
      ]_vars

----------------------------------------------------------------------------
(* C36: with two clients that joined under distinct usernames, at most one *)
(* client is in MY_TURN at any time, and while the server is in            *)
(* WAITING_FOR_MOVE a client in MY_TURN is the one the server names as     *)
(* players[turn_index].                                                    *)

\* the clients that are in MY_TURN
OnTurn == {u \in DOMAIN clients : clients[u].running /\ clients[u].state = MY_TURN}

C36_OneClientOnTurn ==
    /\ Cardinality(OnTurn) <= 1
    /\ \A u \in OnTurn :
         (servers.sm.running /\ servers.sm.state = WAITING_FOR_MOVE) =>
           u = At(servers.sm.players, servers.sm.turn_index)

\* the first player has moved, and the second one is at the prompt
C36_Witness ==
    /\ variant = "session"
    /\ servers.sm.running /\ servers.sm.state = WAITING_FOR_MOVE
    /\ servers.sm.turn_index = 1 /\ NumMarks(servers.sm.game.board) = 1
    /\ At(servers.sm.players, 1) = "bob"
    /\ clients["bob"].state = MY_TURN /\ clients["bob"].pc = "input"
    /\ clients["alice"].running /\ clients["alice"].state = WAIT_UPDATE

----------------------------------------------------------------------------
(* C39: if the transport delivers every server broadcast, then after the   *)
(* server has broadcast a final outcome ("won", "draw" or "error"), every  *)
(* client that had completed WAIT_JOIN eventually reaches GAME_OVER and    *)
(* exits, whatever state it was in, the user answering every prompt.       *)

\* the server's last iteration broadcast a final outcome
FinalSent == FinalOutcomes(servers.sm.sent) # {}

C39_ClientsExit ==
    \A u \in Users :
        ( /\ variant = "session" /\ FinalSent
          /\ clients[u].running
          /\ clients[u].state \in {WAIT_START, MY_TURN, WAIT_UPDATE, GAME_OVER} )
        ~> ~clients[u].running

----------------------------------------------------------------------------
(* The two servers side by side: servers.sm is the loop of                 *)
(* tic_tac_toe_server.py and servers.terminal the loop of                  *)
(* tic_tac_toe_server_terminal.py, both fed the same inbound message and   *)
(* the same result of random.shuffle; sent is what each broadcast for the  *)
(* message.                                                                *)

\* the terminal server's variables when its loop is entered
NewTerminal ==
    [players |-> <<>>, game |-> NoGame, turn_index |-> 0, running |-> TRUE,
     sent |-> <<>>]

\* mutant: a resignation never ends the terminal server's loop
ResignEnds_Never(ps, username) == FALSE

\* (username in players) and (len(players)==2)
ResignEnds(ps, username) == username \in Range(ps) /\ Len(ps) = 2

\* one iteration of "while True" of tic_tac_toe_server_terminal.py: tokens
\* is msg.split() and order is the list random.shuffle leaves
Loop(s, tokens, order) ==
    LET quiet == [s EXCEPT !.sent = <<>>]
        raised == [s EXCEPT !.sent = <<ErrorDisconnect>>, !.running = FALSE]
    IN  IF Len(tokens) = 0 THEN quiet
        ELSE IF Len(tokens) < 2 THEN raised
        ELSE IF At(tokens, 1) = "request" /\ Len(tokens) >= 4 /\ At(tokens, 2) = "join"
        THEN LET username == At(tokens, 3)
                 joined == Join(s.players, username)
                 starts == Len(joined) = 2 /\ ~s.game.present
             IN  [s EXCEPT
                    !.players = IF starts THEN order ELSE joined,
                    !.game = IF starts THEN NewGame ELSE @,
                    !.sent = (IF username \in Range(s.players)
                              THEN <<>> ELSE <<Joined(username)>>)
                             \o (IF starts
                                 THEN <<Update(NewGame), Turn(At(order, s.turn_index))>>
                                 ELSE <<>>)]
        ELSE IF At(tokens, 1) = "resign" /\ Len(tokens) = 3
        THEN LET username == At(tokens, 2)
             IN  IF ResignEnds(s.players, username)
                 THEN [s EXCEPT !.sent = <<Won(Opponent(s.players, username))>>,
                                !.running = FALSE]
                 ELSE [quiet EXCEPT !.players = <<>>]
        ELSE IF ~s.game.present \/ Len(s.players) < 2 THEN quiet
        ELSE IF Len(tokens) = 4
        THEN LET r == HandleMove(tokens, s.players, s.turn_index, s.game)
             IN  [s EXCEPT !.game = r.game,
                           !.turn_index = r.turn_index,
                           !.sent = r.sent,
                           !.running = r.end \notin {"over", "error"}]
        ELSE quiet

\* the iterations of tic_tac_toe_server.py that follow without a receive,
\* up to the next recv_string() or the break; sent gathers the broadcasts
RECURSIVE Settle(_, _)
Settle(s, order) ==
    IF s.running /\ ~Receives(s)
    THEN LET n == Machine(s, NoMessage, order)
         IN  Settle([n EXCEPT !.sent = s.sent \o n.sent], order)
    ELSE s

\* tic_tac_toe_server.py from one recv_string() to the next
Run(s, tokens, order) == Settle(Machine(s, tokens, order), order)

\* a match has been started by one of the servers
Started == servers.sm.game.present \/ servers.terminal.game.present

\* the two joined players
Joiners == Range(servers.sm.players) \cup Range(servers.terminal.players)

\* the join requests of the lobby
TwinJoins == {<<Topic, "request", "join", u>> : u \in Names}

\* the moves and resignations of the two joined players, each player
\* sending the cells of MatchCells
TwinPlays ==
    UNION {{<<Topic, m[1], m[2], u>> : m \in MatchCells(u)} : u \in Joiners}
    \cup {<<Topic, "resign", u>> : u \in Joiners}

\* the message reaches the SUB socket of each server that is in its loop
Feed(tokens, order) ==
    /\ servers' =
         [sm |-> IF servers.sm.running
                 THEN Run(servers.sm, tokens, order)
                 ELSE [servers.sm EXCEPT !.sent = <<>>],
          terminal |-> IF servers.terminal.running
                       THEN Loop(servers.terminal, tokens, order)
                       ELSE [servers.terminal EXCEPT !.sent = <<>>]]
    /\ UNCHANGED <<offstage, clients, sub_sockets>>

\* a join request before the match
TwinJoin(tokens) ==
    /\ variant = "twin" /\ ~Started
    /\ servers.sm.running \/ servers.terminal.running
    /\ \E order \in Shuffles(Join(servers.sm.players, At(tokens, 3))) :
         Feed(tokens, order)

\* a move or a resignation of a joined player once the match has started
TwinPlay(tokens) ==
    /\ variant = "twin" /\ Started
    /\ servers.sm.running \/ servers.terminal.running
    /\ Feed(tokens, servers.sm.players)

InitTwin ==
    /\ variant = "twin"
    /\ state = LOOP
    /\ players = <<>>
    /\ turn_index = 0
    /\ game = NoGame
    /\ last_message = NoMessage
    /\ sent = <<>>
    /\ running = TRUE
    /\ edit = NoEdit
    /\ text = <<>>
    /\ loaded = NoGame
    /\ returned = NoCall
    /\ client = NoClient
    /\ stop_flag = FALSE
    /\ threads = NoThreads
    /\ servers = [sm |-> NewServer, terminal |-> NewTerminal]
    /\ clients = <<>>
    /\ sub_sockets = <<>>

NextTwin ==
    \/ \E tokens \in TwinJoins : TwinJoin(tokens)
    \/ \E tokens \in TwinPlays : TwinPlay(tokens)

SpecTwin == InitTwin /\ [][NextTwin]_vars

----------------------------------------------------------------------------
(* C38: the two servers are observationally equivalent on well-formed      *)
(* traffic: for every sequence of join requests followed, once the match   *)
(* has started, only by moves and resignations of the two joined players,  *)
(* and for the same shuffle result, both broadcast the same messages for   *)
(* every message received and both stop at the same point.                 *)

C38_ServersEquivalent ==
    variant = "twin" =>
        /\ servers.sm.sent = servers.terminal.sent
        /\ servers.sm.running = servers.terminal.running

\* both servers have announced the winner of a line of three and stopped
C38_Witness ==
    /\ variant = "twin"
    /\ ~servers.sm.running /\ ~servers.terminal.running
    /\ Len(servers.terminal.sent) = 2
    /\ servers.terminal.sent[2].cmd = "won"
    /\ servers.sm.sent = servers.terminal.sent
    /\ NumMarks(servers.sm.game.board) = 5

----------------------------------------------------------------------------
(* The lobby: the server of tic_tac_toe_server.py and three clients, each  *)
(* with a username of its own, up to the first prompt of the match; a      *)
(* client can be interrupted at any time.                                  *)

LobbyClients == Names

InitLobby ==
    /\ variant = "lobby"
    /\ state = LOOP
    /\ players = <<>>
    /\ turn_index = 0
    /\ game = NoGame
    /\ last_message = NoMessage
    /\ sent = <<>>
    /\ running = TRUE
    /\ edit = NoEdit
    /\ text = <<>>
    /\ loaded = NoGame
    /\ returned = NoCall
    /\ client = NoClient
    /\ stop_flag = FALSE
    /\ threads = NoThreads
    /\ servers = [sm |-> NewServer]
    /\ clients = [p \in LobbyClients |-> NewClient(p)]
    /\ sub_sockets = [p \in {"server"} \cup LobbyClients |-> <<>>]

NextLobby ==
    \/ \E p \in LobbyClients : SessionConnect(p)
    \/ \E p \in LobbyClients : SessionPoll(p)
    \/ \E p \in LobbyClients : ClientInterrupt(p)
    \/ SessionServer

SpecLobby == InitLobby /\ [][NextLobby]_vars

----------------------------------------------------------------------------
(* C40: the server's and the clients' views of who is playing agree: when  *)
(* the server has started a match, every username for which it broadcast   *)
(* "joined", the client of which therefore left WAIT_JOIN, is one of the   *)
(* two players of that match.                                              *)

\* the client processes that were told they joined
Admitted ==
    {p \in DOMAIN clients : clients[p].state \in {WAIT_START, MY_TURN, WAIT_UPDATE}}

\* the server has started a match
MatchStarted == variant = "lobby" /\ servers.sm.state = WAITING_FOR_MOVE

====
